---- MODULE Spec2Model ----
(***************************************************************************)
(* Verification model of codestats-core: the heuristic, no-AST structural  *)
(* extractors (Python, JS/TS, PHP, HTML, CSS), the shared hardcoded-value  *)
(* and unused-symbol scanners, the dependency resolver, and the analyzeDoc *)
(* / panel boundary of the extension.                                      *)
(*                                                                         *)
(* Text is modelled as a sequence of one-character strings; a file is the  *)
(* character sequence with "\n" separators, split by the extractors as the *)
(* code does with code.split('\n').  Regular expressions of the source are *)
(* translated to matchers over character positions.                        *)
(***************************************************************************)
EXTENDS Integers, Sequences, FiniteSets, TLC

VARIABLES
  lang,        \* language tag handed to parseCode / checkDependencies
  code,        \* source text of the document being parsed
  pc,          \* position of the synchronous pass under check
  stats,       \* FileStats (or the part of it under check) returned by the pass
  fsys,        \* file-system facts read by getInstalledPackages
  lastStats,   \* extension.ts module variable lastStats (a heap reference)
  heap,        \* FileStats objects allocated by analyzeDoc, by request id
  reqs,        \* per analyzeDoc request: position of the async function
  provider,    \* StatsViewProvider fields: _view, _lastStats, html
  delivered    \* history of updateStats calls made by analyzeDoc

vars == <<lang, code, pc, stats, fsys, lastStats, heap, reqs, provider, delivered>>

(***************************************************************************)
(* Bounds                                                                  *)
(***************************************************************************)
MaxLines == 2

(***************************************************************************)
(* Characters                                                              *)
(***************************************************************************)
LowerSeq == <<"a","b","c","d","e","f","g","h","i","j","k","l","m",
              "n","o","p","q","r","s","t","u","v","w","x","y","z">>
UpperSeq == <<"A","B","C","D","E","F","G","H","I","J","K","L","M",
              "N","O","P","Q","R","S","T","U","V","W","X","Y","Z">>
LowerCh == {LowerSeq[i] : i \in 1..26}
UpperCh == {UpperSeq[i] : i \in 1..26}
DigitCh == {"0","1","2","3","4","5","6","7","8","9"}
WordCh  == LowerCh \cup UpperCh \cup DigitCh \cup {"_"}     \* \w
WsCh    == {" ", "\t", "\r"}                                 \* \s inside one line
DQ == "\""          \* the double quote
SQ == "'"           \* the single quote
BQ == "bq"          \* the backtick (template-literal delimiter), which a TLA+ string cannot hold
BS == "\\"          \* the backslash
PunctCh == {"=", ":", DQ, SQ, BQ, "#", "/", "*", BS, "{", "}", "(", ")",
            "[", "]", "<", ">", ",", ".", ";", "-", "+", "?", "!", "@", "$", "|", "&"}
NL == "\n"
Sigma == WordCh \cup WsCh \cup PunctCh                       \* characters of one line
Not(C) == Sigma \ C                                          \* [^...] within a line

ToLower(c) == IF c \in UpperCh THEN LowerSeq[CHOOSE i \in 1..26 : UpperSeq[i] = c] ELSE c
LowerStr(s) == [i \in 1..Len(s) |-> ToLower(s[i])]

Max(S) == CHOOSE x \in S : \A y \in S : y <= x
Min(S) == CHOOSE x \in S : \A y \in S : x <= y

(***************************************************************************)
(* String primitives of String.prototype                                  *)
(***************************************************************************)
At(s, p, w) == p >= 1 /\ p + Len(w) - 1 <= Len(s) /\ SubSeq(s, p, p + Len(w) - 1) = w
StartsWith(s, w) == At(s, 1, w)
EndsWith(s, w) == Len(s) >= Len(w) /\ At(s, Len(s) - Len(w) + 1, w)
Includes(s, w) == \E p \in 1..(Len(s) + 1) : At(s, p, w)
\* indexOf, 1-based; 0 when absent
IndexOf(s, w) == IF Includes(s, w) THEN Min({p \in 1..(Len(s) + 1) : At(s, p, w)}) ELSE 0
IndexFrom(s, w, from) ==
  LET H == {p \in from..(Len(s) + 1) : At(s, p, w)} IN IF H = {} THEN 0 ELSE Min(H)
\* position just after the longest run of characters of C that starts at p
Run(s, p, C) == Max({q \in p..(Len(s) + 1) : \A k \in p..(q - 1) : s[k] \in C})
\* position of the first character of the longest run of C that ends just before p
RunBack(s, p, C) == Min({q \in 1..p : \A k \in q..(p - 1) : s[k] \in C})
TrimStart(s) == SubSeq(s, Run(s, 1, WsCh), Len(s))
TrimEnd(s) == SubSeq(s, 1, RunBack(s, Len(s) + 1, WsCh) - 1)
Trim(s) == TrimEnd(TrimStart(s))
Slice(s, from, to) == SubSeq(s, from, to)     \* 1-based, inclusive

RECURSIVE Split(_, _)
Split(s, c) ==
  LET i == IndexOf(s, <<c>>) IN
  IF i = 0 THEN <<s>> ELSE <<SubSeq(s, 1, i - 1)>> \o Split(SubSeq(s, i + 1, Len(s)), c)

RECURSIVE Join(_, _)
Join(ss, c) ==
  IF Len(ss) = 0 THEN <<>>
  ELSE IF Len(ss) = 1 THEN ss[1]
  ELSE ss[1] \o <<c>> \o Join(Tail(ss), c)

RECURSIVE Flatten(_)
Flatten(ss) == IF Len(ss) = 0 THEN <<>> ELSE ss[1] \o Flatten(Tail(ss))

SelectIdx(n, Keep(_)) ==   \* the indices of 1..n that satisfy Keep, ascending
  LET F[i \in 0..n] == IF i = 0 THEN <<>> ELSE IF Keep(i) THEN Append(F[i - 1], i) ELSE F[i - 1]
  IN F[n]

(***************************************************************************)
(* Regular-expression building blocks: sets of positions a match can reach *)
(***************************************************************************)
AllPos(s) == 1..(Len(s) + 1)
PLit(s, P, w) == {p + Len(w) : p \in {q \in P : At(s, q, w)}}
PLitI(s, P, w) == PLit(LowerStr(s), P, w)                       \* /i
PAny(s, P, W) == UNION {PLit(s, P, w) : w \in W}                \* (?:w1|w2|...)
PAnyI(s, P, W) == UNION {PLitI(s, P, w) : w \in W}
POne(s, P, C) == {p + 1 : p \in {q \in P : q <= Len(s) /\ s[q] \in C}}
PStar(s, P, C) == {q \in AllPos(s) : \E p \in P : p <= q /\ \A k \in p..(q - 1) : s[k] \in C}
PPlus(s, P, C) == PStar(s, POne(s, P, C), C)
POpt(P, Q) == P \cup Q
IsW(s, p) == p >= 1 /\ p <= Len(s) /\ s[p] \in WordCh
PWordB(s, P) == {p \in P : IsW(s, p - 1) # IsW(s, p)}           \* \b
PEnd(s, P) == {p \in P : p = Len(s) + 1}                        \* $

(***************************************************************************)
(* Hardcoded-value scan: pythonParser.ts detectHardcodedValues and         *)
(* parserUtils.ts detectHardcoded                                          *)
(***************************************************************************)
MinStrLen == 8                      \* {8,} of the assignStr pattern
CtxLen == 30                        \* slice(0, 30) of the shared scanner's context
QuotePy == {DQ, SQ}
QuoteShared == {DQ, SQ, BQ}
CredWordsPy == {<<"p","a","s","s","w","o","r","d">>, <<"s","e","c","r","e","t">>, <<"k","e","y">>, <<"t","o","k","e","n">>, <<"a","p","i","_","k","e","y">>, <<"a","p","i","k","e","y">>, <<"p","a","s","s","w","d">>, <<"c","r","e","d","e","n","t","i","a","l">>}
CredWordsShared == CredWordsPy \cup {<<"a","u","t","h">>}
KwHttp == <<"h","t","t","p">>
KwPort == <<"p","o","r","t">>
KwImportSp == <<"i","m","p","o","r","t"," ">>
KwFromSp == <<"f","r","o","m"," ">>
KwUseSp == <<"u","s","e"," ">>
KwRequire == <<"r","e","q","u","i","r","e">>
KwInclude == <<"i","n","c","l","u","d","e">>
KwMeta == <<"-","-","-","m","e","t","a">>
KwDashes == <<"-","-","-">>
KwHashMeta == <<"#"," ","-","-","-","m","e","t","a">>
KwHashDashes == <<"#"," ","-","-","-">>

\* the text of the leftmost match, given the positions a match from p can end at
MatchText(s, Ends(_)) ==
  LET starts == {p \in AllPos(s) : Ends({p}) # {}} IN
  IF starts = {} THEN <<>>
  ELSE LET p0 == Min(starts) IN SubSeq(s, p0, Max(Ends({p0})) - 1)

\* /(?:password|...|credential)\s*=\s*["'][^"']+["']/i
PyCredEnds(s, P) ==
  LET k == PAnyI(s, P, CredWordsPy)
      e == POne(s, PStar(s, k, WsCh), {"="})
      q == POne(s, PStar(s, e, WsCh), QuotePy)
  IN POne(s, PPlus(s, q, Not(QuotePy)), QuotePy)
\* /(?:password|...|credential|auth)\s*[:=]\s*["'`][^"'`]+["'`]/i
SharedCredEnds(s, P) ==
  LET k == PAnyI(s, P, CredWordsShared)
      e == POne(s, PStar(s, k, WsCh), {":", "="})
      q == POne(s, PStar(s, e, WsCh), QuoteShared)
  IN POne(s, PPlus(s, q, Not(QuoteShared)), QuoteShared)
\* /https?:\/\/[^\s"']+/   (the shared scanner also excludes the backtick)
UrlEnds(s, P, Q) ==
  LET h == PLit(s, P, KwHttp)
      c == PLit(s, POpt(h, POne(s, h, {"s"})), <<":", "/", "/">>)
  IN PPlus(s, c, Not(WsCh \cup Q))
\* \d{1,3}
Digits13(s, P) ==
  LET a == POne(s, P, DigitCh)
      b == POne(s, a, DigitCh)
  IN a \cup b \cup POne(s, b, DigitCh)
\* /\b\d{1,3}\.\d{1,3}\.\d{1,3}\.\d{1,3}\b/
IpEnds(s, P) ==
  LET a == POne(s, Digits13(s, PWordB(s, P)), {"."})
      b == POne(s, Digits13(s, a), {"."})
      c == POne(s, Digits13(s, b), {"."})
  IN PWordB(s, Digits13(s, c))
\* /["']\/[\w\-\/\.]+["']/
PathEnds(s, P) ==
  LET a == POne(s, POne(s, P, QuotePy), {"/"})
  IN POne(s, PPlus(s, a, WordCh \cup {"-", "/", "."}), QuotePy)
\* /(?:port)\s*=\s*\d+/i and /(?:port)\s*[:=]\s*\d+/i
PortEnds(s, P, Eq) ==
  LET e == POne(s, PStar(s, PLitI(s, P, KwPort), WsCh), Eq)
  IN PPlus(s, PStar(s, e, WsCh), DigitCh)
\* line.match(/=\s*(\d+)/)[1], or /[:=]\s*(\d+)/: <<>> when there is no match
AssignedNumber(s, Eq) ==
  LET starts == {p \in 1..Len(s) : s[p] \in Eq /\ Run(s, p + 1, WsCh) <= Len(s)
                                   /\ s[Run(s, p + 1, WsCh)] \in DigitCh} IN
  IF starts = {} THEN <<>>
  ELSE LET d == Run(s, Min(starts) + 1, WsCh) IN SubSeq(s, d, Run(s, d, DigitCh) - 1)
\* trimmed.match(/^(\w+)\s*=\s*["']([^"']{8,})["']\s*$/): [ok, name, value]
AssignStr(t) ==
  LET n == Run(t, 1, WordCh)
      e == Run(t, n, WsCh)
      q == Run(t, e + 1, WsCh)
      b == Run(t, q + 1, Not(QuotePy))
      ok == /\ n > 1
            /\ e <= Len(t) /\ t[e] = "="
            /\ q <= Len(t) /\ t[q] \in QuotePy
            /\ b - (q + 1) >= MinStrLen
            /\ b <= Len(t) /\ t[b] \in QuotePy
            /\ Run(t, b + 1, WsCh) = Len(t) + 1
  IN [ok |-> ok, name |-> SubSeq(t, 1, n - 1), value |-> IF ok THEN SubSeq(t, q + 1, b - 1) ELSE <<>>]
\* /^[A-Z_]+$/
ConstNamed(n) == Len(n) > 0 /\ \A k \in 1..Len(n) : n[k] \in UpperCh \cup {"_"}

Finding(v, t, n, c) == [value |-> v, type |-> t, lineNumber |-> n, context |-> c]

\* one iteration of the loop of detectHardcodedValues, for lines[i - 1]
PyHardcodedLine(line, i) ==
  LET trimmed == Trim(line)
      ctx == Trim(Split(trimmed, "=")[1])
      cred == PyCredEnds(line, AllPos(line)) # {}
      url == UrlEnds(line, AllPos(line), QuotePy) # {}
      ip == IpEnds(line, AllPos(line)) # {}
      path == PathEnds(line, AllPos(line)) # {}
      port == PortEnds(line, AllPos(line), {"="}) # {}
      val == AssignedNumber(line, {"="})
      as == AssignStr(trimmed)
  IN
  IF StartsWith(trimmed, <<"#">>) \/ trimmed = <<>> THEN <<>>
  ELSE IF StartsWith(trimmed, KwHashMeta) \/ StartsWith(trimmed, KwHashDashes) THEN <<>>
  ELSE IF StartsWith(trimmed, KwImportSp) \/ StartsWith(trimmed, KwFromSp) THEN <<>>
  ELSE IF cred
    THEN <<Finding(MatchText(line, LAMBDA P : PyCredEnds(line, P)), "credential", i, ctx)>>
  ELSE
    (IF url /\ ~StartsWith(trimmed, <<"#">>)
       THEN <<Finding(MatchText(line, LAMBDA P : UrlEnds(line, P, QuotePy)), "url", i, ctx)>>
       ELSE <<>>)
    \o (IF ip /\ ~url
       THEN <<Finding(MatchText(line, LAMBDA P : IpEnds(line, P)), "ip", i, ctx)>> ELSE <<>>)
    \o (IF path /\ ~url
       THEN <<Finding(MatchText(line, LAMBDA P : PathEnds(line, P)), "path", i, ctx)>> ELSE <<>>)
    \o (IF port /\ val # <<>> THEN <<Finding(val, "number", i, KwPort)>> ELSE <<>>)
    \o (IF as.ok /\ ((~ConstNamed(as.name)) = FALSE) /\ ~ConstNamed(as.name)
       THEN <<Finding(as.value, "string", i, as.name)>> ELSE <<>>)

detectHardcodedValues(lines) ==
  Flatten([i \in 1..Len(lines) |-> PyHardcodedLine(lines[i], i)])

\* trimmed.split(/[:=]/)[0]
BeforeColonOrEq(t) ==
  LET H == {p \in 1..Len(t) : t[p] \in {":", "="}} IN
  IF H = {} THEN t ELSE SubSeq(t, 1, Min(H) - 1)

\* one iteration of the loop of detectHardcoded, for lines[i - 1]
SharedHardcodedLine(line, i, commentPrefix) ==
  LET trimmed == Trim(line)
      c0 == Trim(BeforeColonOrEq(trimmed))
      ctx == SubSeq(c0, 1, IF Len(c0) < CtxLen THEN Len(c0) ELSE CtxLen)
      cred == SharedCredEnds(line, AllPos(line)) # {}
      url == UrlEnds(line, AllPos(line), QuoteShared) # {}
      ip == IpEnds(line, AllPos(line)) # {}
      port == PortEnds(line, AllPos(line), {":", "="}) # {}
      val == AssignedNumber(line, {":", "="})
  IN
  IF trimmed = <<>> \/ StartsWith(trimmed, commentPrefix) \/ StartsWith(trimmed, <<"#">>) THEN <<>>
  ELSE IF Includes(trimmed, KwMeta) \/ Includes(trimmed, KwDashes) THEN <<>>
  ELSE IF \E w \in {KwImportSp, KwFromSp, KwUseSp, KwRequire, KwInclude} : StartsWith(trimmed, w)
    THEN <<>>
  ELSE IF cred
    THEN <<Finding(MatchText(line, LAMBDA P : SharedCredEnds(line, P)), "credential", i, ctx)>>
  ELSE
    (IF url
       THEN <<Finding(MatchText(line, LAMBDA P : UrlEnds(line, P, QuoteShared)), "url", i, ctx)>>
       ELSE <<>>)
    \o (IF ip /\ ~url
       THEN <<Finding(MatchText(line, LAMBDA P : IpEnds(line, P)), "ip", i, ctx)>> ELSE <<>>)
    \o (IF port /\ val # <<>> THEN <<Finding(val, "number", i, KwPort)>> ELSE <<>>)

detectHardcoded(lines, commentPrefix) ==
  Flatten([i \in 1..Len(lines) |-> SharedHardcodedLine(lines[i], i, commentPrefix)])

(***************************************************************************)
(* Specification of the hardcoded-value scan                               *)
(***************************************************************************)
Idle == "idle"
LinesOf(c) == Split(c, NL)                 \* code.split('\n')
\* all files of 1..n lines drawn from a pool of lines
FilesOver(pool, n) == {Join(f, NL) : f \in UNION {[1..k -> pool] : k \in 1..n}}

HardPool == {
  <<"k","e","y","=",DQ,"a","b",DQ>>,
  <<"#"," ","k","e","y","=",DQ,"a","b",DQ>>,
  <<"k","e","y","=",DQ,"h","t","t","p",":","/","/","h",DQ>>,
  <<"u","=",DQ,"h","t","t","p",":","/","/","h",DQ>>,
  <<"k","e","y","=",DQ,"a","-","-","-","b",DQ>>,
  <<"k","e","y","=",DQ,"a","b","c","d","e","f","g","h",DQ>>,
  <<"n","a","m","e","=",DQ,"a","b","c","d","e","f","g","h",DQ>>,
  <<"p","o","r","t","=","8","0">>,
  <<>>,
  <<"h","=",DQ,"1",".","2",".","3",".","4",DQ>>,
  <<"p","=",DQ,"/","e","t","c",DQ>>,
  <<"a","u","t","h",":"," ",BQ,"a","b",BQ>>,
  <<" "," ","T","o","k","e","n"," ","="," ",SQ,"x",SQ>>,
  <<"i","m","p","o","r","t"," ","k">> }
HardLangs == {"python", "javascript", "php"}

InitHardcoded ==
  /\ lang \in HardLangs
  /\ code \in FilesOver(HardPool, MaxLines)
  /\ pc = "ready"
  /\ stats = Idle
  /\ fsys = Idle /\ lastStats = Idle /\ heap = Idle /\ reqs = Idle
  /\ provider = Idle /\ delivered = Idle

\* parsePythonCode: const hardcoded = detectHardcodedValues(lines)
ScanHardcodedPy ==
  /\ pc = "ready" /\ lang = "python"
  /\ stats' = [hardcoded |-> detectHardcodedValues(LinesOf(code)), totalLines |-> Len(LinesOf(code))]
  /\ pc' = "done"
  /\ UNCHANGED <<lang, code, fsys, lastStats, heap, reqs, provider, delivered>>

\* parseJsCode / parsePhpCode: const hardcoded = detectHardcoded(lines, '//')
ScanHardcodedShared ==
  /\ pc = "ready" /\ lang \in {"javascript", "php"}
  /\ stats' = [hardcoded |-> detectHardcoded(LinesOf(code), <<"/", "/">>), totalLines |-> Len(LinesOf(code))]
  /\ pc' = "done"
  /\ UNCHANGED <<lang, code, fsys, lastStats, heap, reqs, provider, delivered>>

NextHardcoded == ScanHardcodedPy \/ ScanHardcodedShared
SpecHardcoded == InitHardcoded /\ [][NextHardcoded]_vars

(***************************************************************************)
(* Claims about the hardcoded-value scan                                   *)
(***************************************************************************)
CredentialPattern(l) ==
  IF lang = "python" THEN PyCredEnds(l, AllPos(l)) # {} ELSE SharedCredEnds(l, AllPos(l)) # {}
\* a line the scan is specified to look at: non-blank, not a comment, not an import
ScannedLine(l) ==
  LET t == Trim(l) IN
  /\ t # <<>>
  /\ ~StartsWith(t, <<"#">>) /\ ~StartsWith(t, <<"/", "/">>)
  /\ ~\E w \in {KwImportSp, KwFromSp, KwUseSp, KwRequire, KwInclude} : StartsWith(t, w)
FindingsAt(i) == {k \in 1..Len(stats.hardcoded) : stats.hardcoded[k].lineNumber = i}

\* C1: in both scanners a non-blank, non-comment, non-import line that matches the
\* credential assignment pattern yields exactly one finding for that line, of type
\* credential with that line's 1-indexed number, and no url, ip, path, number or
\* string finding for the same line.
C1_CredentialOnly ==
  pc = "done" =>
    \A i \in 1..Len(LinesOf(code)) :
      (ScannedLine(LinesOf(code)[i]) /\ CredentialPattern(LinesOf(code)[i])) =>
        /\ Cardinality(FindingsAt(i)) = 1
        /\ \A k \in FindingsAt(i) : stats.hardcoded[k].type = "credential"

\* a plain assignment of a quoted literal of at least MinStrLen characters to a target that is
\* not constant-named, on a line without a credential pattern
PlainStringAssignment(l) ==
  /\ ScannedLine(l)
  /\ AssignStr(Trim(l)).ok
  /\ ~ConstNamed(AssignStr(Trim(l)).name)
  /\ PyCredEnds(l, AllPos(l)) = {}
\* C21: in the Python hardcoded-value scan a plain assignment of a quoted literal of at least
\* 8 characters to a target that is not constant-named, matching no credential pattern,
\* yields a finding of kind string whose value is the literal and whose context is the
\* target name.
C21_PlainStringReported ==
  (pc = "done" /\ lang = "python") =>
    \A i \in 1..Len(LinesOf(code)) :
      PlainStringAssignment(LinesOf(code)[i]) =>
        \E k \in FindingsAt(i) :
          /\ stats.hardcoded[k].type = "string"
          /\ stats.hardcoded[k].value = AssignStr(Trim(LinesOf(code)[i])).value
          /\ stats.hardcoded[k].context = AssignStr(Trim(LinesOf(code)[i])).name

(***************************************************************************)
(* String.prototype.replace(/re/g, rep): MatchEnd(s, p) is the index of    *)
(* the last character of the match that starts at p, or 0.                 *)
(***************************************************************************)
RECURSIVE ReplaceAll(_, _, _, _)
ReplaceAll(s, p, MatchEnd(_, _), rep) ==
  LET H == {q \in p..Len(s) : MatchEnd(s, q) # 0} IN
  IF H = {} THEN SubSeq(s, p, Len(s))
  ELSE SubSeq(s, p, Min(H) - 1) \o rep \o ReplaceAll(s, MatchEnd(s, Min(H)) + 1, MatchEnd, rep)

WsNl == WsCh \cup {NL}                         \* \s over a text that holds several lines
\* /#.*$/ and /\/\/.*$/ on one line: cut at the first occurrence
CutFrom(s, w) == IF IndexOf(s, w) = 0 THEN s ELSE SubSeq(s, 1, IndexOf(s, w) - 1)
\* the closing quote of /q(?:[^q\\]|\\.)*q/ whose opening quote is at p, or 0
RECURSIVE QuoteClose(_, _, _)
QuoteClose(s, i, q) ==
  LET j == Min({k \in i..Len(s) : s[k] \in {q, BS}} \cup {Len(s) + 1}) IN
  IF j > Len(s) THEN 0
  ELSE IF s[j] = q THEN j
  ELSE IF j + 1 <= Len(s) THEN QuoteClose(s, j + 2, q) ELSE 0
QuotedEnd(s, p, q) == IF s[p] = q THEN QuoteClose(s, p + 1, q) ELSE 0
\* /f"(?:[^"\\]|\\.)*"/
FQuotedEnd(s, p, q) == IF s[p] = "f" /\ p + 1 <= Len(s) /\ s[p + 1] = q THEN QuoteClose(s, p + 2, q) ELSE 0
\* /"""[\s\S]*?"""|'''[\s\S]*?'''/ and /\/\*[\s\S]*?\*\//: opener, lazily up to the first closer
DelimitedEnd(s, p, open, close) ==
  IF At(s, p, open) /\ IndexFrom(s, close, p + Len(open)) # 0
    THEN IndexFrom(s, close, p + Len(open)) + Len(close) - 1 ELSE 0
TripleEnd(s, p) ==
  IF DelimitedEnd(s, p, <<DQ, DQ, DQ>>, <<DQ, DQ, DQ>>) # 0
    THEN DelimitedEnd(s, p, <<DQ, DQ, DQ>>, <<DQ, DQ, DQ>>)
    ELSE DelimitedEnd(s, p, <<SQ, SQ, SQ>>, <<SQ, SQ, SQ>>)

\* new RegExp('\\b' + escapeRegex(name) + '\\b').test(text)
HasWord(text, name) ==
  \E p \in AllPos(text) :
    /\ IsW(text, p - 1) # IsW(text, p)
    /\ At(text, p, name)
    /\ IsW(text, p + Len(name) - 1) # IsW(text, p + Len(name))

(***************************************************************************)
(* pythonParser.ts: imports, classes, methods, top-level functions         *)
(***************************************************************************)
KwFrom == <<"f","r","o","m">>
KwImport == <<"i","m","p","o","r","t">>
KwAs == <<"a","s">>
KwDef == <<"d","e","f">>
KwAsync == <<"a","s","y","n","c">>
KwClass == <<"c","l","a","s","s">>
KwTyping == <<"t","y","p","i","n","g">>
KwSelfDot == <<"s","e","l","f",".">>
PyIndentStep == 4                              \* classIndent + 4

\* n.split(/\s+as\s+/)[0]
BeforeAs(n) ==
  LET H == {p \in 1..Len(n) : PPlus(n, PLit(n, PPlus(n, {p}, WsCh), KwAs), WsCh) # {}} IN
  IF H = {} THEN n ELSE SubSeq(n, 1, Min(H) - 1)
MapSeq(ss, F(_)) == [i \in 1..Len(ss) |-> F(ss[i])]
FilterSeq(ss, Keep(_)) == LET I == SelectIdx(Len(ss), LAMBDA i : Keep(ss[i])) IN [k \in 1..Len(I) |-> ss[I[k]]]
ImportedName(n) == Trim(BeforeAs(Trim(n)))
ImportInfo(m, ns, f, n) == [module |-> m, names |-> ns, isFrom |-> f, lineNumber |-> n]

\* line.match(/^from\s+([\w.]+)\s+import\s+(.+)$/): [ok, module, rest]
FromMatch(t) ==
  LET a == Run(t, 5, WsCh)
      m == Run(t, a, WordCh \cup {"."})
      b == Run(t, m, WsCh)
      c == Run(t, b + 6, WsCh)
      ok == StartsWith(t, KwFrom) /\ a > 5 /\ m > a /\ b > m /\ At(t, b, KwImport)
            /\ c > b + 6 /\ c <= Len(t)
  IN [ok |-> ok, module |-> IF ok THEN SubSeq(t, a, m - 1) ELSE <<>>,
      rest |-> IF ok THEN SubSeq(t, c, Len(t)) ELSE <<>>]
\* line.match(/^import\s+(.+)$/): [ok, rest]
ImportMatch(t) ==
  LET a == Run(t, 7, WsCh)
      ok == StartsWith(t, KwImport) /\ a > 7 /\ a <= Len(t)
  IN [ok |-> ok, rest |-> IF ok THEN SubSeq(t, a, Len(t)) ELSE <<>>]
\* one iteration of the loop of parseImports, for lines[i - 1]
PyImportsOfLine(l, i) ==
  LET t == Trim(l)
      fm == FromMatch(t)
      im == ImportMatch(t)
  IN IF fm.ok
       THEN <<ImportInfo(fm.module,
                         FilterSeq(MapSeq(Split(fm.rest, ","), ImportedName), LAMBDA n : n # <<>>),
                         TRUE, i)>>
     ELSE IF im.ok
       THEN MapSeq(MapSeq(Split(im.rest, ","), ImportedName),
                   LAMBDA mod : ImportInfo(mod, <<mod>>, FALSE, i))
     ELSE <<>>
parseImports(lines) == Flatten([i \in 1..Len(lines) |-> PyImportsOfLine(lines[i], i)])

getIndent(l) == Run(l, 1, WsCh) - 1
\* /(async\s+)?def\s+(\w+)\s*\(([^)]*)\)\s*(?:->\s*(.+?))?\s*:/ anchored at position p
DefMatch(l, p) ==
  LET as == At(l, p, KwAsync) /\ Run(l, p + 5, WsCh) > p + 5
      d == IF as THEN Run(l, p + 5, WsCh) ELSE p
      e == Run(l, d + 3, WsCh)
      n == Run(l, e, WordCh)
      f == Run(l, n, WsCh)
      g == Run(l, f + 1, Not({")"}))
      h == Run(l, g + 1, WsCh)
      ok == /\ At(l, d, KwDef) /\ e > d + 3 /\ n > e
            /\ f <= Len(l) /\ l[f] = "("
            /\ g <= Len(l) /\ l[g] = ")"
            /\ \/ (At(l, h, <<"-", ">">>) /\ \E j \in (h + 3)..Len(l) : l[j] = ":")
               \/ (h <= Len(l) /\ l[h] = ":")
  IN [ok |-> ok, name |-> IF ok THEN SubSeq(l, e, n - 1) ELSE <<>>, isAsync |-> ok /\ as,
      params |-> IF ok THEN SubSeq(l, f + 1, g - 1) ELSE <<>>]
MethodInfo(nm, n, a) == [name |-> nm, lineNumber |-> n, isAsync |-> a, isPrivate |-> StartsWith(nm, <<"_">>)]

parseTopLevelFunctions(lines) ==
  LET Found(m) ==          \* m[i]: the match of line i against the def pattern at column 0
        LET I == SelectIdx(Len(lines), LAMBDA i : m[i].ok) IN
        [k \in 1..Len(I) |-> MethodInfo(m[I[k]].name, I[k], m[I[k]].isAsync)]
  IN Found([i \in 1..Len(lines) |-> DefMatch(lines[i], 1)])

\* the index at which the body loops of parseClassMethods / countBranches break:
\* the first non-blank line after idx whose indentation is <= that of lines[idx]
PyBlockEnd(lines, idx) ==
  LET H == {i \in (idx + 1)..Len(lines) :
              Trim(lines[i]) # <<>> /\ getIndent(lines[i]) <= getIndent(lines[idx])} IN
  IF H = {} THEN Len(lines) + 1 ELSE Min(H)
parseClassMethods(lines, classLineIdx) ==
  LET methodIndent == getIndent(lines[classLineIdx]) + PyIndentStep
      Found(m) ==          \* m[i]: the match of line i against the def pattern after its indent
        LET I == SelectIdx(Len(lines), LAMBDA i :
                   /\ i > classLineIdx /\ i < PyBlockEnd(lines, classLineIdx)
                   /\ Trim(lines[i]) # <<>>
                   /\ m[i].ok
                   /\ getIndent(lines[i]) >= methodIndent)
        IN [k \in 1..Len(I) |-> MethodInfo(m[I[k]].name, I[k], m[I[k]].isAsync)]
  IN Found([i \in 1..Len(lines) |-> DefMatch(lines[i], getIndent(lines[i]) + 1)])
\* line.match(/^class\s+(\w+)\s*(?:\(([^)]*)\))?\s*:/): [ok, name]
ClassMatch(l) ==
  LET a == Run(l, 6, WsCh)
      n == Run(l, a, WordCh)
      b == Run(l, n, WsCh)
      c == Run(l, b + 1, Not({")"}))
      withBases == b <= Len(l) /\ l[b] = "(" /\ c <= Len(l) /\ l[c] = ")"
                   /\ Run(l, c + 1, WsCh) <= Len(l) /\ l[Run(l, c + 1, WsCh)] = ":"
      ok == StartsWith(l, KwClass) /\ a > 6 /\ n > a /\ (withBases \/ (b <= Len(l) /\ l[b] = ":"))
  IN [ok |-> ok, name |-> IF ok THEN SubSeq(l, a, n - 1) ELSE <<>>]
ClassInfo(nm, ms, n) == [name |-> nm, methods |-> ms, lineNumber |-> n]
parseClasses(lines) ==
  LET Found(m) ==          \* m[i]: the match of line i against the class pattern
        LET I == SelectIdx(Len(lines), LAMBDA i : m[i].ok) IN
        [k \in 1..Len(I) |-> ClassInfo(m[I[k]].name, parseClassMethods(lines, I[k]), I[k])]
  IN Found([i \in 1..Len(lines) |-> ClassMatch(lines[i])])

(***************************************************************************)
(* Unused-symbol scan: pythonParser.ts detectUnusedCode and                *)
(* parserUtils.ts detectUnused                                             *)
(***************************************************************************)
TypingSkip == {<<"D","i","c","t">>, <<"L","i","s","t">>, <<"S","e","t">>, <<"T","u","p","l","e">>, <<"O","p","t","i","o","n","a","l">>, <<"U","n","i","o","n">>, <<"A","n","y">>, <<"T","y","p","e">>,
  <<"C","a","l","l","a","b","l","e">>, <<"I","t","e","r","a","t","o","r">>, <<"G","e","n","e","r","a","t","o","r">>, <<"S","e","q","u","e","n","c","e">>, <<"M","a","p","p","i","n","g">>, <<"I","t","e","r","a","b","l","e">>,
  <<"C","l","a","s","s","V","a","r">>, <<"F","i","n","a","l">>, <<"L","i","t","e","r","a","l">>, <<"T","y","p","e","V","a","r">>, <<"G","e","n","e","r","i","c">>, <<"P","r","o","t","o","c","o","l">>,
  <<"A","w","a","i","t","a","b","l","e">>, <<"C","o","r","o","u","t","i","n","e">>, <<"A","s","y","n","c","I","t","e","r","a","t","o","r">>, <<"A","s","y","n","c","G","e","n","e","r","a","t","o","r">>,
  <<"N","a","m","e","d","T","u","p","l","e">>, <<"T","y","p","e","d","D","i","c","t">>, <<"A","n","n","o","t","a","t","e","d">>, <<"T","y","p","e","A","l","i","a","s">>, <<"S","e","l","f">>}
TypingNames == TypingSkip \cup {<<"F","C">>, <<"R","e","a","c","t","N","o","d","e">>, <<"P","r","o","p","s","W","i","t","h","C","h","i","l","d","r","e","n">>, <<"C","o","m","p","o","n","e","n","t","T","y","p","e">>,
  <<"C","S","S","P","r","o","p","e","r","t","i","e","s">>, <<"M","o","u","s","e","E","v","e","n","t">>, <<"C","h","a","n","g","e","E","v","e","n","t">>, <<"F","o","r","m","E","v","e","n","t">>}
KwInit == <<"_","_","i","n","i","t","_","_">>
KwConstructor == <<"c","o","n","s","t","r","u","c","t","o","r">>
KwConstruct == <<"_","_","c","o","n","s","t","r","u","c","t">>
KwDunder == <<"_","_">>
KwTypes == <<"t","y","p","e","s">>
KwCollectionsAbc == <<"c","o","l","l","e","c","t","i","o","n","s",".","a","b","c">>
KwThisDot == <<"t","h","i","s",".">>
KwPhpThis == <<"$","t","h","i","s","-",">">>
KwFunction == <<"f","u","n","c","t","i","o","n">>
KwAsyncFunction == <<"a","s","y","n","c"," ","f","u","n","c","t","i","o","n">>

ImportLineSet(imports) == {imports[k].lineNumber : k \in 1..Len(imports)}
UnusedItem(nm, k, n) == [name |-> nm, kind |-> k, lineNumber |-> n]

\* the map callback that builds codeOnly in detectUnusedCode
PyStripLine(l) ==
  LET s1 == CutFrom(l, <<"#">>)
      s2 == ReplaceAll(s1, 1, TripleEnd, <<>>)
      s3 == ReplaceAll(s2, 1, LAMBDA s, p : QuotedEnd(s, p, DQ), <<DQ, DQ>>)
      s4 == ReplaceAll(s3, 1, LAMBDA s, p : QuotedEnd(s, p, SQ), <<SQ, SQ>>)
      s5 == ReplaceAll(s4, 1, LAMBDA s, p : FQuotedEnd(s, p, DQ), <<DQ, DQ>>)
  IN ReplaceAll(s5, 1, LAMBDA s, p : FQuotedEnd(s, p, SQ), <<SQ, SQ>>)
PyCodeOnly(lines, imports) ==
  Join([i \in 1..Len(lines) |->
          IF i \in ImportLineSet(imports) THEN <<>> ELSE PyStripLine(lines[i])], NL)

\* the map callback that builds codeOnly in detectUnused
SharedStripLine(l) ==
  LET s1 == CutFrom(l, <<"/", "/">>)
      s2 == CutFrom(s1, <<"#">>)
      s3 == ReplaceAll(s2, 1, LAMBDA s, p : DelimitedEnd(s, p, <<"/", "*">>, <<"*", "/">>), <<>>)
      s4 == ReplaceAll(s3, 1, LAMBDA s, p : QuotedEnd(s, p, DQ), <<DQ, DQ>>)
      s5 == ReplaceAll(s4, 1, LAMBDA s, p : QuotedEnd(s, p, SQ), <<SQ, SQ>>)
  IN ReplaceAll(s5, 1, LAMBDA s, p : QuotedEnd(s, p, BQ), <<BQ, BQ>>)
SharedCodeOnly(lines, imports) ==
  Join([i \in 1..Len(lines) |->
          IF i \in ImportLineSet(imports) THEN <<>> ELSE SharedStripLine(lines[i])], NL)

\* the (import, name) pairs of the import loop, in order
ImportPairs(imports) ==
  Flatten([k \in 1..Len(imports) |->
             [j \in 1..Len(imports[k].names) |-> [imp |-> imports[k], name |-> imports[k].names[j]]]])
UnusedImports(imports, codeOnly, Skip(_, _)) ==
  LET P == ImportPairs(imports)
      I == SelectIdx(Len(P), LAMBDA k :
             /\ ~(P[k].name = <<"*">> \/ Len(P[k].name) <= 1)
             /\ ~Skip(P[k].imp, P[k].name)
             /\ ~HasWord(codeOnly, P[k].name))
  IN [k \in 1..Len(I) |-> UnusedItem(P[I[k]].name, "import", P[I[k]].imp.lineNumber)]
PySkipImport(imp, name) == StartsWith(imp.module, KwTyping) \/ name \in TypingSkip
\* /^typing|^types$|^collections\.abc/.test(imp.module) || typingNames.has(name)
SharedSkipImport(imp, name) ==
  \/ StartsWith(imp.module, KwTyping) \/ imp.module = KwTypes
  \/ StartsWith(imp.module, KwCollectionsAbc)
  \/ name \in TypingNames

\* the filter with the 1-based line number taken for the 0-based index
LinesWithoutOffByOne(lines, n) ==
  LET I == SelectIdx(Len(lines), LAMBDA i : i # n + 1) IN Join([k \in 1..Len(I) |-> lines[I[k]]], NL)
\* lines.filter((_, idx) => idx !== m.line - 1).join('\n')
LinesWithout(lines, n) ==
  LET I == SelectIdx(Len(lines), LAMBDA i : i # n) IN Join([k \in 1..Len(I) |-> lines[I[k]]], NL)
\* new RegExp('(?:q1|q2|...|\\b)' + name + '\\s*\\(').test(text)
HasCall(text, name, Quals) ==
  \E p \in AllPos(text) :
    /\ \/ \E q \in Quals : At(text, p - Len(q), q)
       \/ IsW(text, p - 1) # IsW(text, p)
    /\ At(text, p, name)
    /\ Run(text, p + Len(name), WsNl) <= Len(text)
    /\ text[Run(text, p + Len(name), WsNl)] = "("
\* the match of /(?:kw1|kw2|...)\s+\w+/ that starts at p
DefHeadEnd(s, p, Kws) ==
  LET E == {Run(s, Run(s, p + Len(k), WsNl), WordCh) - 1 :
              k \in {w \in Kws : /\ At(s, p, w)
                                 /\ Run(s, p + Len(w), WsNl) > p + Len(w)
                                 /\ Run(s, Run(s, p + Len(w), WsNl), WordCh) > Run(s, p + Len(w), WsNl)}}
  IN IF E = {} THEN 0 ELSE Min(E)
\* the loop over allMethods: the entries that are reported
UnusedMethods(lines, allMethods, Quals, Kws) ==
  LET I == SelectIdx(Len(allMethods), LAMBDA k :
             LET lw == LinesWithout(lines, allMethods[k].lineNumber) IN
             /\ ~HasCall(lw, allMethods[k].name, Quals)
             /\ ~HasWord(ReplaceAll(lw, 1, LAMBDA s, p : DefHeadEnd(s, p, Kws), <<>>), allMethods[k].name))
  IN [k \in 1..Len(I) |-> UnusedItem(allMethods[I[k]].name, "method", allMethods[I[k]].lineNumber)]
ClassMethodsKept(classes, Keep(_)) ==
  Flatten([c \in 1..Len(classes) |-> FilterSeq(classes[c].methods, Keep)])

detectUnusedCode(lines, imports, classes, functions) ==
  UnusedImports(imports, PyCodeOnly(lines, imports), PySkipImport)
  \o UnusedMethods(lines,
       functions \o ClassMethodsKept(classes,
                      LAMBDA m : m.name # KwInit /\ ~StartsWith(m.name, KwDunder)),
       {KwSelfDot}, {KwDef})

detectUnused(lines, imports, classes, functions) ==
  UnusedImports(imports, SharedCodeOnly(lines, imports), SharedSkipImport)
  \o UnusedMethods(lines,
       functions \o ClassMethodsKept(classes,
                      LAMBDA m : /\ m.name # KwInit /\ m.name # KwConstructor
                                 /\ m.name # KwConstruct /\ ~StartsWith(m.name, KwDunder)),
       {KwSelfDot, KwThisDot, KwPhpThis}, {KwDef, KwFunction, KwAsyncFunction})

(***************************************************************************)
(* jsParser.ts (src/unnamed/part_000): imports, functions, classes,        *)
(* class methods, branch count                                             *)
(***************************************************************************)
KwExport == <<"e","x","p","o","r","t">>
KwDefault == <<"d","e","f","a","u","l","t">>
KwExtends == <<"e","x","t","e","n","d","s">>
KwRequireCall == <<"r","e","q","u","i","r","e">>
KwDeclare == {<<"c","o","n","s","t">>, <<"l","e","t">>, <<"v","a","r">>}
KwModifiers == {<<"s","t","a","t","i","c">>, <<"p","u","b","l","i","c">>, <<"p","r","i","v","a","t","e">>, <<"p","r","o","t","e","c","t","e","d">>, <<"r","e","a","d","o","n","l","y">>}
KwGetSet == {<<"g","e","t">>, <<"s","e","t">>}
KwNotMethod == {<<"i","f">>, <<"f","o","r">>, <<"w","h","i","l","e">>, <<"s","w","i","t","c","h">>}
KwJsBranch == {<<"i","f">>, <<"e","l","s","e"," ","i","f">>, <<"e","l","s","e">>, <<"f","o","r">>, <<"w","h","i","l","e">>, <<"s","w","i","t","c","h">>, <<"c","a","s","e">>}
JsMaxIndent == 2                               \* if (indent > 2) continue
Ch(s, p) == IF p >= 1 /\ p <= Len(s) THEN s[p] ELSE "eol"    \* s[p], or a mark past the end

\* the tail \s+from\s+['"]([^'"]+)['"] of the import patterns, from position p: [ok, module]
FromTail(l, p) ==
  LET c == Run(l, p, WsCh)
      d == Run(l, c + 4, WsCh)
      e == Run(l, d + 1, Not(QuotePy))
      ok == c > p /\ At(l, c, KwFrom) /\ d > c + 4 /\ Ch(l, d) \in QuotePy
            /\ e > d + 1 /\ Ch(l, e) \in QuotePy
  IN [ok |-> ok, module |-> IF ok THEN SubSeq(l, d + 1, e - 1) ELSE <<>>]
\* l.match(/^import\s+(?:\{([^}]+)\}|(\w+))\s+from\s+['"]([^'"]+)['"]/): [ok, names, module]
JsImport1(l) ==
  LET a == Run(l, 7, WsCh)
      b == Run(l, a + 1, Not({"}"}))
      w == Run(l, a, WordCh)
      braces == Ch(l, a) = "{" /\ b > a + 1 /\ Ch(l, b) = "}" /\ FromTail(l, b + 1).ok
      single == w > a /\ FromTail(l, w).ok
      head == StartsWith(l, KwImport) /\ a > 7
  IN [ok |-> head /\ (braces \/ single),
      names |-> IF head /\ braces
                  THEN FilterSeq(MapSeq(Split(SubSeq(l, a + 1, b - 1), ","), ImportedName),
                                 LAMBDA n : n # <<>>)
                ELSE IF head /\ single THEN <<SubSeq(l, a, w - 1)>> ELSE <<>>,
      module |-> IF head /\ braces THEN FromTail(l, b + 1).module
                 ELSE IF head /\ single THEN FromTail(l, w).module ELSE <<>>]
\* l.match(/^import\s+\*\s+as\s+(\w+)\s+from\s+['"]([^'"]+)['"]/): [ok, names, module]
JsImport2(l) ==
  LET a == Run(l, 7, WsCh)
      b == Run(l, a + 1, WsCh)
      c == Run(l, b + 2, WsCh)
      w == Run(l, c, WordCh)
      ok == StartsWith(l, KwImport) /\ a > 7 /\ Ch(l, a) = "*" /\ b > a + 1 /\ At(l, b, KwAs)
            /\ c > b + 2 /\ w > c /\ FromTail(l, w).ok
  IN [ok |-> ok, names |-> IF ok THEN <<SubSeq(l, c, w - 1)>> ELSE <<>>,
      module |-> IF ok THEN FromTail(l, w).module ELSE <<>>]
\* /(?:const|let|var)\s+(?:\{([^}]+)\}|(\w+))\s*=\s*require\s*\(\s*['"]([^'"]+)['"]/ from p
JsRequireAt(l, p) ==
  LET K == {k \in KwDeclare : At(l, p, k)}
      k0 == IF K = {} THEN 0 ELSE Len(CHOOSE k \in K : TRUE)
      a == Run(l, p + k0, WsCh)
      b == Run(l, a + 1, Not({"}"}))
      w == Run(l, a, WordCh)
      braces == Ch(l, a) = "{" /\ b > a + 1 /\ Ch(l, b) = "}"
      tail(q) == LET e == Run(l, q, WsCh)
                     r == Run(l, e + 1, WsCh)
                     o == Run(l, r + 7, WsCh)
                     s == Run(l, o + 1, WsCh)
                     z == Run(l, s + 1, Not(QuotePy))
                     ok == Ch(l, e) = "=" /\ At(l, r, KwRequireCall) /\ Ch(l, o) = "("
                           /\ Ch(l, s) \in QuotePy /\ z > s + 1 /\ Ch(l, z) \in QuotePy
                 IN [ok |-> ok, module |-> IF ok THEN SubSeq(l, s + 1, z - 1) ELSE <<>>]
      okB == K # {} /\ a > p + k0 /\ braces /\ tail(b + 1).ok
      okW == K # {} /\ a > p + k0 /\ w > a /\ tail(w).ok
  IN [ok |-> okB \/ okW,
      names |-> IF okB THEN FilterSeq(MapSeq(Split(SubSeq(l, a + 1, b - 1), ","), Trim),
                                      LAMBDA n : n # <<>>)
                ELSE IF okW THEN <<SubSeq(l, a, w - 1)>> ELSE <<>>,
      module |-> IF okB THEN tail(b + 1).module ELSE IF okW THEN tail(w).module ELSE <<>>]
JsImport3(l) ==
  LET H == {p \in 1..Len(l) : JsRequireAt(l, p).ok} IN
  IF H = {} THEN [ok |-> FALSE, names |-> <<>>, module |-> <<>>] ELSE JsRequireAt(l, Min(H))
\* one iteration of the loop of parseJsImports
JsImportsOfLine(line, i) ==
  LET First(m1, m2, m3) ==
        IF m1.ok THEN <<ImportInfo(m1.module, m1.names, TRUE, i)>>
        ELSE IF m2.ok THEN <<ImportInfo(m2.module, m2.names, TRUE, i)>>
        ELSE IF m3.ok THEN <<ImportInfo(m3.module, m3.names, FALSE, i)>>
        ELSE <<>>
  IN First(JsImport1(Trim(line)), JsImport2(Trim(line)), JsImport3(Trim(line)))
parseJsImports(lines) == Flatten([i \in 1..Len(lines) |-> JsImportsOfLine(lines[i], i)])

\* (?:kw\s+)? at p: the position after it when present, else p
OptKw(l, p, kw) == IF At(l, p, kw) /\ Run(l, p + Len(kw), WsCh) > p + Len(kw)
                     THEN Run(l, p + Len(kw), WsCh) ELSE p
\* (\w+)\s*(?:<[^>]*>)?\s*\(([^)]*)\) at p: [ok, name, params]
JsCallHead(l, p) ==
  LET n == Run(l, p, WordCh)
      a == Run(l, n, WsCh)
      b == Run(l, a + 1, Not({">"}))
      g == IF Ch(l, a) = "<" /\ Ch(l, b) = ">" /\ Ch(l, Run(l, b + 1, WsCh)) = "("
             THEN Run(l, b + 1, WsCh) ELSE a
      c == Run(l, g + 1, Not({")"}))
      ok == n > p /\ Ch(l, g) = "(" /\ Ch(l, c) = ")"
  IN [ok |-> ok, name |-> IF ok THEN SubSeq(l, p, n - 1) ELSE <<>>,
      params |-> IF ok THEN SubSeq(l, g + 1, c - 1) ELSE <<>>]
\* l.match(/^(?:export\s+)?(?:default\s+)?(async\s+)?function\s+(\w+)\s*(?:<[^>]*>)?\s*\(([^)]*)\).../)
JsFunction1(l) ==
  LET a == OptKw(l, OptKw(l, 1, KwExport), KwDefault)
      b == OptKw(l, a, KwAsync)
      c == Run(l, b + 8, WsCh)
      ok == At(l, b, KwFunction) /\ c > b + 8 /\ JsCallHead(l, c).ok
  IN [ok |-> ok, name |-> IF ok THEN JsCallHead(l, c).name ELSE <<>>, isAsync |-> ok /\ b > a]
\* l.match(/^(?:export\s+)?(?:const|let|var)\s+(\w+)\s*=\s*(async\s+)?(?:\([^)]*\)|(\w+))
\*          \s*(?::\s*\([^)]*\)\s*=>\s*([^\s{]+))?\s*=>/)
JsFunction2(l) ==
  LET a == OptKw(l, 1, KwExport)
      K == {k \in KwDeclare : At(l, a, k)}
      k0 == IF K = {} THEN 0 ELSE Len(CHOOSE k \in K : TRUE)
      b == Run(l, a + k0, WsCh)
      n == Run(l, b, WordCh)
      e == Run(l, n, WsCh)
      v == Run(l, e + 1, WsCh)
      \* (?:\([^)]*\)|(\w+)) at q, then the optional annotation, then \s*=>
      arrow(q) ==
        LET c == Run(l, q + 1, Not({")"}))
            w == Run(l, q, WordCh)
            after == IF Ch(l, q) = "(" /\ Ch(l, c) = ")" THEN c + 1 ELSE IF w > q THEN w ELSE 0
            s == Run(l, after, WsCh)
            t1 == Run(l, s + 1, WsCh)
            t2 == Run(l, t1 + 1, Not({")"}))
            t3 == Run(l, t2 + 1, WsCh)
            t4 == Run(l, t3 + 2, WsCh)
            t5 == Run(l, t4, Not(WsCh \cup {"{"}))
            ann == Ch(l, s) = ":" /\ Ch(l, t1) = "(" /\ Ch(l, t2) = ")" /\ At(l, t3, <<"=", ">">>)
                   /\ \E z \in (t4 + 1)..t5 : At(l, Run(l, z, WsCh), <<"=", ">">>)
        IN after # 0 /\ (ann \/ At(l, s, <<"=", ">">>))
      as == OptKw(l, v, KwAsync)
      head == K # {} /\ b > a + k0 /\ n > b /\ Ch(l, e) = "="
  IN [ok |-> head /\ (arrow(as) \/ arrow(v)),
      name |-> IF head /\ (arrow(as) \/ arrow(v)) THEN SubSeq(l, b, n - 1) ELSE <<>>,
      isAsync |-> head /\ as > v /\ arrow(as)]
\* l.search(/\S/): 0-based index of the first non-blank character, -1 when there is none
FirstNonWs(l) == IF Run(l, 1, WsCh) > Len(l) THEN -1 ELSE Run(l, 1, WsCh) - 1
parseJsFunctions(lines) ==
  LET First(m1, m2) == IF m1.ok THEN m1 ELSE m2
      Found(m) ==          \* m[i]: the match of line i against the two patterns
        LET I == SelectIdx(Len(lines), LAMBDA i : FirstNonWs(lines[i]) <= JsMaxIndent /\ m[i].ok)
        IN [k \in 1..Len(I) |-> MethodInfo(m[I[k]].name, I[k], m[I[k]].isAsync)]
  IN Found([i \in 1..Len(lines) |-> First(JsFunction1(lines[i]), JsFunction2(lines[i]))])

\* the depth counter of the brace scans after lines[start..i], and whether a '{' was seen
CountCh(l, c) == Cardinality({p \in 1..Len(l) : l[p] = c})
RECURSIVE BraceDepth(_, _, _)
BraceDepth(lines, start, i) ==
  IF i < start THEN 0
  ELSE BraceDepth(lines, start, i - 1) + CountCh(lines[i], "{") - CountCh(lines[i], "}")
BraceStarted(lines, start, i) == \E k \in start..i : CountCh(lines[k], "{") > 0
\* the index at which the loops of parseJsClassMethods / countJsBranches break
\* (if (started && depth <= 0) break), or Len(lines) + 1 when they run to the end
BraceSpanEnd(lines, start) ==
  LET H == {i \in start..Len(lines) :
              BraceStarted(lines, start, i) /\ BraceDepth(lines, start, i) <= 0} IN
  IF H = {} THEN Len(lines) + 1 ELSE Min(H)

\* /^(kw1|kw2|...)\b/.test(t)
StartsWithKw(t, Kws) == \E k \in Kws : StartsWith(t, k) /\ ~IsW(t, Len(k) + 1)
countJsBranches(lines, start) ==
  LET body == {i \in start..(BraceSpanEnd(lines, start) - 1) : TRUE}
      kw == {i \in body : StartsWithKw(Trim(lines[i]), KwJsBranch)}
      tern == {i \in body : Includes(Trim(lines[i]), <<"?">>) /\ Includes(Trim(lines[i]), <<":">>)}
  IN Cardinality(kw) + Cardinality(tern)

\* l.match(/^\s+(?:(?:static|public|private|protected|readonly)\s+)*(async\s+)?(?:get\s+|set\s+)?
\*          (\w+)\s*(?:<[^>]*>)?\s*\(([^)]*)\).../): [ok, name, isAsync]
RECURSIVE ModifierClosure(_, _)
ModifierClosure(l, M) ==
  LET N == {OptKw(l, p, k) : p \in M, k \in KwModifiers} \ M IN
  IF N = {} THEN M ELSE ModifierClosure(l, M \cup N)
JsMethodMatch(l) ==
  LET s0 == Run(l, 1, WsCh)
      M == IF s0 > 1 THEN ModifierClosure(l, {s0}) ELSE {}
      A == {[p |-> m, async |-> FALSE] : m \in M}
           \cup {[p |-> OptKw(l, m, KwAsync), async |-> TRUE] : m \in {x \in M : OptKw(l, x, KwAsync) > x}}
      G == A \cup {[p |-> OptKw(l, a.p, k), async |-> a.async] :
                     a \in A, k \in {x \in KwGetSet : \E y \in A : OptKw(l, y.p, x) > y.p}}
      Leftmost(S) == CHOOSE g \in S : \A h \in S : h.p <= g.p
      Match(S) == [ok |-> S # {},
                   name |-> IF S # {} THEN JsCallHead(l, Leftmost(S).p).name ELSE <<>>,
                   isAsync |-> S # {} /\ Leftmost(S).async]
  IN Match({g \in G : JsCallHead(l, g.p).ok})
parseJsClassMethods(lines, classLine) ==
  LET Found(m) ==          \* m[i]: the match of line i against the method pattern
        LET I == SelectIdx(Len(lines), LAMBDA i :
                   /\ i > classLine /\ i < BraceSpanEnd(lines, classLine)
                   /\ m[i].ok
                   /\ m[i].name \notin KwNotMethod)
        IN [k \in 1..Len(I) |->
              [name |-> m[I[k]].name, lineNumber |-> I[k],
               isAsync |-> m[I[k]].isAsync,
               isPrivate |-> \/ Includes(lines[I[k]], <<"p","r","i","v","a","t","e">>)
                             \/ StartsWith(m[I[k]].name, <<"_">>)
                             \/ StartsWith(m[I[k]].name, <<"#">>),
               complexity |-> countJsBranches(lines, I[k])]]
  IN Found([i \in 1..Len(lines) |-> JsMethodMatch(lines[i])])
\* l.match(/^(?:export\s+)?class\s+(\w+)(?:\s+extends\s+([\w.]+))?\s*\{/): [ok, name]
JsClassMatch(l) ==
  LET a == OptKw(l, 1, KwExport)
      b == Run(l, a + 5, WsCh)
      n == Run(l, b, WordCh)
      c == Run(l, n, WsCh)
      d == Run(l, c + 7, WsCh)
      e == Run(l, d, WordCh \cup {"."})
      ext == c > n /\ At(l, c, KwExtends) /\ d > c + 7 /\ e > d /\ Ch(l, Run(l, e, WsCh)) = "{"
      ok == At(l, a, KwClass) /\ b > a + 5 /\ n > b /\ (ext \/ Ch(l, c) = "{")
  IN [ok |-> ok, name |-> IF ok THEN SubSeq(l, b, n - 1) ELSE <<>>]
parseJsClasses(lines) ==
  LET Found(m) ==          \* m[i]: the match of line i against the class pattern
        LET I == SelectIdx(Len(lines), LAMBDA i : m[i].ok) IN
        [k \in 1..Len(I) |-> ClassInfo(m[I[k]].name, parseJsClassMethods(lines, I[k]), I[k])]
  IN Found([i \in 1..Len(lines) |-> JsClassMatch(lines[i])])


(***************************************************************************)
(* Specification of the unused-symbol scan (Python and JavaScript)         *)
(***************************************************************************)
MaxUnusedLines == 3
PyImportPool == {
  <<"f","r","o","m"," ","m"," ","i","m","p","o","r","t"," ","a","a",","," ","b","b">>,
  <<"x"," ","="," ",DQ,DQ,DQ>>,
  <<"a","a"," ",DQ,DQ,DQ>>,
  <<"a","a","(","b","b",")">>,
  <<"a","a","(","1",")">>,
  <<"y"," ","="," ",DQ,"#",DQ," ","+"," ","b","b">>,
  <<"z"," ","="," ",SQ,DQ,SQ," ","+"," ",DQ,"{","a","a",DQ>> }
JsImportPool == {
  <<"i","m","p","o","r","t"," ","{","a","a",","," ","b","b","}"," ","f","r","o","m"," ",SQ,"m",SQ>>,
  <<"x"," ","="," ",BQ>>,
  <<"a","a"," ",BQ>>,
  <<"a","a","(","b","b",")">>,
  <<"a","a","(","1",")">>,
  <<"y"," ","="," ",DQ,"/","/",DQ," ","+"," ","b","b">>,
  <<"z"," ","="," ",SQ,DQ,SQ," ","+"," ",DQ,"{","a","a",DQ>> }
PyCallPool == {
  <<"d","e","f"," ","h","h","(","x",")",":"," ","r","e","t","u","r","n"," ","x","+","1">>,
  <<"h","h","(","1",")">>,
  <<"c","l","a","s","s"," ","K",":">>,
  <<" "," "," "," ","d","e","f"," ","_","_","i","n","i","t","_","_","(","s","e","l","f",")",":">>,
  <<" "," "," "," ","d","e","f"," ","m","m","(","s","e","l","f",")",":">>,
  <<"k",".","m","m","(",")">> }
JsCallPool == {
  <<"f","u","n","c","t","i","o","n"," ","h","h","(","x",")"," ","{"," ","r","e","t","u","r","n"," ","x","+","1"," ","}">>,
  <<"h","h","(","1",")">>,
  <<"c","l","a","s","s"," ","K"," ","{">>,
  <<" "," ","c","o","n","s","t","r","u","c","t","o","r","(","x",")"," ","{","}">>,
  <<" "," ","m","m","(",")"," ","{","}">>,
  <<"}">> }

InitUnused ==
  /\ \/ lang = "python"
        /\ code \in FilesOver(PyImportPool, MaxUnusedLines) \cup FilesOver(PyCallPool, MaxUnusedLines)
     \/ lang = "javascript"
        /\ code \in FilesOver(JsImportPool, MaxUnusedLines) \cup FilesOver(JsCallPool, MaxUnusedLines)
  /\ pc = "ready"
  /\ stats = Idle
  /\ fsys = Idle /\ lastStats = Idle /\ heap = Idle /\ reqs = Idle
  /\ provider = Idle /\ delivered = Idle

\* parsePythonCode: imports, classes, functions, then detectUnusedCode over them
ScanUnusedPy ==
  /\ pc = "ready" /\ lang = "python"
  /\ LET lines == LinesOf(code)
         Summary(imports, classes, functions) ==
           [imports |-> imports, classes |-> classes, functions |-> functions,
            unused |-> detectUnusedCode(lines, imports, classes, functions),
            totalLines |-> Len(lines)]
     IN stats' = Summary(parseImports(lines), parseClasses(lines), parseTopLevelFunctions(lines))
  /\ pc' = "done"
  /\ UNCHANGED <<lang, code, fsys, lastStats, heap, reqs, provider, delivered>>

\* parseJsCode: imports, classes, functions, then detectUnused over them
ScanUnusedShared ==
  /\ pc = "ready" /\ lang = "javascript"
  /\ LET lines == LinesOf(code)
         Summary(imports, classes, functions) ==
           [imports |-> imports, classes |-> classes, functions |-> functions,
            unused |-> detectUnused(lines, imports, classes, functions),
            totalLines |-> Len(lines)]
     IN stats' = Summary(parseJsImports(lines), parseJsClasses(lines), parseJsFunctions(lines))
  /\ pc' = "done"
  /\ UNCHANGED <<lang, code, fsys, lastStats, heap, reqs, provider, delivered>>

NextUnused == ScanUnusedPy \/ ScanUnusedShared
SpecUnused == InitUnused /\ [][NextUnused]_vars

(***************************************************************************)
(* Reference lexer of the claims about literals: the class (code, string,  *)
(* comment) of every character of a file, strings and block comments       *)
(* followed across lines                                                    *)
(***************************************************************************)
Rep(c, n) == [k \in 1..n |-> c]
RECURSIVE Lex(_, _, _, _)
Lex(s, p, mode, py) ==
  LET Go(n, cls, m) ==
        LET r == Lex(s, p + n, m, py) IN
        [cls |-> Rep(cls, Min({n, Len(s) - p + 1})) \o r.cls, ok |-> r.ok]
      Skip(C, cls) == Go(Min({q \in p..Len(s) : s[q] \in C} \cup {Len(s) + 1}) - p, cls, mode)
  IN
  IF p > Len(s) THEN [cls |-> <<>>, ok |-> mode \in {"code", "lcom"}]
  ELSE CASE mode = "code" ->
              IF s[p] \notin {"#", "/", DQ, SQ, BQ} THEN Skip({"#", "/", DQ, SQ, BQ}, "code")
              ELSE IF py /\ s[p] = "#" THEN Go(1, "com", "lcom")
              ELSE IF ~py /\ At(s, p, <<"/", "/">>) THEN Go(2, "com", "lcom")
              ELSE IF ~py /\ At(s, p, <<"/", "*">>) THEN Go(2, "com", "bcom")
              ELSE IF py /\ At(s, p, <<DQ, DQ, DQ>>) THEN Go(3, "str", "tdq")
              ELSE IF py /\ At(s, p, <<SQ, SQ, SQ>>) THEN Go(3, "str", "tsq")
              ELSE IF s[p] = DQ THEN Go(1, "str", "dq")
              ELSE IF s[p] = SQ THEN Go(1, "str", "sq")
              ELSE IF ~py /\ s[p] = BQ THEN Go(1, "str", "bq")
              ELSE Go(1, "code", "code")
         [] mode = "lcom" -> IF s[p] = NL THEN Go(1, "code", "code") ELSE Skip({NL}, "com")
         [] mode = "bcom" ->
              IF s[p] # "*" THEN Skip({"*"}, "com")
              ELSE IF At(s, p, <<"*", "/">>) THEN Go(2, "com", "code") ELSE Go(1, "com", "bcom")
         [] mode \in {"dq", "sq", "bq"} ->
              LET q == IF mode = "dq" THEN DQ ELSE IF mode = "sq" THEN SQ ELSE BQ IN
              IF s[p] \notin {BS, q, NL} THEN Skip({BS, q, NL}, "str")
              ELSE IF s[p] = BS THEN Go(2, "str", mode)
              ELSE IF s[p] = q THEN Go(1, "str", "code")
              ELSE IF mode # "bq" THEN [cls |-> Rep("code", Len(s) - p + 1), ok |-> FALSE]
              ELSE Go(1, "str", mode)
         [] mode \in {"tdq", "tsq"} ->
              LET q == IF mode = "tdq" THEN DQ ELSE SQ IN
              IF s[p] \notin {BS, q} THEN Skip({BS, q}, "str")
              ELSE IF s[p] = BS THEN Go(2, "str", mode)
              ELSE IF At(s, p, <<q, q, q>>) THEN Go(3, "str", "code")
              ELSE Go(1, "str", mode)
LexOf(text, language) == Lex(text, 1, "code", language = "python")
\* every literal and block comment of the file is closed
WellLexed == LexOf(code, lang).ok
\* the 1-based line that holds position p of the file
LineOfPos(text, p) == 1 + Cardinality({k \in 1..(p - 1) : text[k] = NL})
Occurrences(text, name) == {p \in 1..Len(text) : At(text, p, name)}
WordOccurrences(text, name) ==
  {p \in Occurrences(text, name) : ~IsW(text, p - 1) /\ ~IsW(text, p + Len(name))}
AllIn(text, language, p, n, cls) ==
  LET m == LexOf(text, language).cls IN \A k \in p..(p + n - 1) : m[k] = cls
SkipImport(imp, name) ==
  IF lang = "python" THEN PySkipImport(imp, name) ELSE SharedSkipImport(imp, name)
Eligible(imp, name) == name # <<"*">> /\ Len(name) > 1 /\ ~SkipImport(imp, name)
ReportedAt(name, kind, n) ==
  \E k \in 1..Len(stats.unused) : stats.unused[k] = UnusedItem(name, kind, n)


(***************************************************************************)
(* Claims about unused imports                                             *)
(***************************************************************************)
OutsideImports(p) == LineOfPos(code, p) \notin ImportLineSet(stats.imports)
OnlyInStrings(name) ==
  \A p \in Occurrences(code, name) : OutsideImports(p) => AllIn(code, lang, p, Len(name), "str")
ReferencedInCode(name) ==
  \E p \in WordOccurrences(code, name) : OutsideImports(p) /\ AllIn(code, lang, p, Len(name), "code")
FindingsFor(name, kind, n) ==
  {k \in 1..Len(stats.unused) : stats.unused[k] = UnusedItem(name, kind, n)}

\* C2: an eligible imported name whose every occurrence outside import lines lies inside a
\* string literal (on one line or spanning several) is reported as an unused import at its
\* import line.
C2_StringOnlyImportReported ==
  (pc = "done" /\ WellLexed) =>
    \A k \in 1..Len(stats.imports) : \A j \in 1..Len(stats.imports[k].names) :
      LET imp == stats.imports[k]
          name == imp.names[j] IN
      (Eligible(imp, name) /\ OnlyInStrings(name)) => ReportedAt(name, "import", imp.lineNumber)

\* C3: for an import statement that names several members, the unused-import findings of
\* the statement are exactly its eligible names with no word-boundary occurrence in
\* executable code outside import lines, one finding per such name at the import's line.
C3_MultiImportExact ==
  (pc = "done" /\ WellLexed) =>
    \A k \in 1..Len(stats.imports) : \A j \in 1..Len(stats.imports[k].names) :
      LET imp == stats.imports[k]
          name == imp.names[j] IN
      Len(imp.names) > 1 =>
        Cardinality(FindingsFor(name, "import", imp.lineNumber)) =
          Cardinality({i \in 1..Len(stats.imports) :
                         /\ stats.imports[i].lineNumber = imp.lineNumber
                         /\ Eligible(imp, name) /\ ~ReferencedInCode(name)
                         /\ i = k})


\* the working copy codeOnly of the unused scan, as its lines
CodeOnlyLines ==
  Split(IF lang = "python" THEN PyCodeOnly(LinesOf(code), stats.imports)
        ELSE SharedCodeOnly(LinesOf(code), stats.imports), NL)
BraceOutsideLiterals(i) ==
  LET cls == LexOf(code, lang).cls IN
  \E p \in 1..Len(code) :
    LineOfPos(code, p) = i /\ code[p] \in {"{", "}"} /\ cls[p] = "code"
Opened(l, q) == Cardinality({k \in 1..q : l[k] = "{"}) - Cardinality({k \in 1..q : l[k] = "}"})
HasUnmatchedBrace(l) == Opened(l, Len(l)) # 0 \/ \E q \in 1..Len(l) : Opened(l, q) < 0

\* C9: the stripped working copy of the unused scan has as many lines as the input, and a
\* line with no brace outside string literals and comments never becomes a stripped line
\* that holds an unmatched brace.
C9_StripKeepsLinesAndBraces ==
  (pc = "done" /\ WellLexed) =>
    /\ Len(CodeOnlyLines) = Len(LinesOf(code))
    /\ \A i \in 1..Len(LinesOf(code)) :
         ~BraceOutsideLiterals(i) => ~HasUnmatchedBrace(CodeOnlyLines[i])


(***************************************************************************)
(* Claims about unused callables                                           *)
(***************************************************************************)
\* the callables the extractor records: top-level functions, then class methods
Callables(classes, functions, Keep(_)) == functions \o ClassMethodsKept(classes, Keep)
ConstructorAlias(m) ==
  m.name \in {KwInit, KwConstructor, KwConstruct} \/ StartsWith(m.name, KwDunder)
\* m is the only callable of that name and the name occurs on no line but its own
DeclaredOnceAndAlone(m, all) ==
  /\ Cardinality({k \in 1..Len(all) : all[k].name = m.name}) = 1
  /\ \A i \in 1..Len(LinesOf(code)) : i # m.lineNumber => ~Includes(LinesOf(code)[i], m.name)
CallableCase(m, all) ==
  DeclaredOnceAndAlone(m, all) /\ ReportedAt(m.name, "method", m.lineNumber)

MaxBraceLines == 4
BracePool == {
  <<"f","u","n","c","t","i","o","n"," ","f","(",")"," ","{">>,
  <<" "," ","c","o","n","s","t"," ","s"," ","="," ",DQ,"}",DQ,";">>,
  <<" "," ","i","f"," ","(","x",")"," ","{"," ","y","(",")",";"," ","}">>,
  <<"}">>,
  <<"c","l","a","s","s"," ","K"," ","{">>,
  <<" "," ","m","m","(",")"," ","{"," ","s"," ","="," ",DQ,"{"," ","}",DQ,";"," ","}">> }

InitBraces ==
  /\ lang = "javascript"
  /\ code \in FilesOver(BracePool, MaxBraceLines)
  /\ pc = "ready"
  /\ stats = Idle
  /\ fsys = Idle /\ lastStats = Idle /\ heap = Idle /\ reqs = Idle
  /\ provider = Idle /\ delivered = Idle

\* parseJsCode: classes (parseJsClassMethods scans each class body) and functions
\* (complexity: countJsBranches(lines, i) scans each function body)
ParseJsBodies ==
  /\ pc = "ready" /\ lang = "javascript"
  /\ LET lines == LinesOf(code)
         Summary(fs) ==
           [classes |-> parseJsClasses(lines),
            functions |-> [k \in 1..Len(fs) |->
                             [name |-> fs[k].name, lineNumber |-> fs[k].lineNumber,
                              complexity |-> countJsBranches(lines, fs[k].lineNumber)]],
            totalLines |-> Len(lines)]
     IN stats' = Summary(parseJsFunctions(lines))
  /\ pc' = "done"
  /\ UNCHANGED <<lang, code, fsys, lastStats, heap, reqs, provider, delivered>>

NextBraces == ParseJsBodies
SpecBraces == InitBraces /\ [][NextBraces]_vars

\* the file with every character of a literal or comment blanked, as lines
CodeCharsLines ==
  LET cls == LexOf(code, lang).cls IN
  Split([p \in 1..Len(code) |-> IF cls[p] = "code" \/ code[p] = NL THEN code[p] ELSE " "], NL)
\* the line that holds the closing brace of the body opened on line n
RealSpanEnd(n) == BraceSpanEnd(CodeCharsLines, n)
BraceDeclared(n) ==
  /\ CountCh(CodeCharsLines[n], "{") > 0
  /\ RealSpanEnd(n) <= Len(LinesOf(code))
DeclarationLines ==
  {stats.functions[k].lineNumber : k \in 1..Len(stats.functions)}
  \cup {stats.classes[k].lineNumber : k \in 1..Len(stats.classes)}

\* C5: the depth scan that delimits the body of a brace-delimited function or class ends at
\* the line of the declaration's real closing brace; braces inside string literals or
\* comments do not move it.
C5_SpanEndsAtRealClose ==
  (pc = "done" /\ WellLexed) =>
    \A n \in DeclarationLines :
      BraceDeclared(n) => BraceSpanEnd(LinesOf(code), n) = RealSpanEnd(n)


(***************************************************************************)
(* analyzers.ts (src/src/types.ts): dependency health check                *)
(***************************************************************************)
PY_STDLIB == {
  <<"o","s">>, <<"s","y","s">>, <<"r","e">>, <<"j","s","o","n">>, <<"m","a","t","h">>,
  <<"d","a","t","e","t","i","m","e">>, <<"t","y","p","i","n","g">>, <<"p","a","t","h","l","i","b">>,
  <<"c","o","l","l","e","c","t","i","o","n","s">>, <<"a","b","c">>, <<"f","u","n","c","t","o","o","l","s">>,
  <<"i","t","e","r","t","o","o","l","s">>, <<"h","a","s","h","l","i","b">>, <<"l","o","g","g","i","n","g">>,
  <<"u","n","i","t","t","e","s","t">>, <<"i","o">>, <<"t","i","m","e">>, <<"r","a","n","d","o","m">>,
  <<"s","t","r","i","n","g">>, <<"c","o","p","y">>, <<"e","n","u","m">>, <<"d","a","t","a","c","l","a","s","s","e","s">>,
  <<"c","o","n","t","e","x","t","l","i","b">>, <<"a","s","y","n","c","i","o">>,
  <<"s","u","b","p","r","o","c","e","s","s">>, <<"s","h","u","t","i","l">>, <<"g","l","o","b">>,
  <<"t","e","m","p","f","i","l","e">>, <<"t","h","r","e","a","d","i","n","g">>,
  <<"m","u","l","t","i","p","r","o","c","e","s","s","i","n","g">>, <<"s","o","c","k","e","t">>,
  <<"h","t","t","p">>, <<"u","r","l","l","i","b">>, <<"b","a","s","e","6","4">>,
  <<"c","s","v">>, <<"x","m","l">>, <<"h","t","m","l">>, <<"s","q","l","i","t","e","3">>,
  <<"s","t","r","u","c","t">>, <<"a","r","g","p","a","r","s","e">>, <<"t","e","x","t","w","r","a","p">>,
  <<"u","u","i","d">>, <<"d","e","c","i","m","a","l">>, <<"f","r","a","c","t","i","o","n","s">>,
  <<"s","t","a","t","i","s","t","i","c","s">>, <<"o","p","e","r","a","t","o","r">>,
  <<"p","p","r","i","n","t">>, <<"w","a","r","n","i","n","g","s">>, <<"t","r","a","c","e","b","a","c","k">>,
  <<"i","n","s","p","e","c","t">>, <<"d","i","s">>, <<"g","c">>, <<"w","e","a","k","r","e","f">>,
  <<"a","r","r","a","y">>, <<"q","u","e","u","e">>, <<"h","e","a","p","q">>, <<"b","i","s","e","c","t">>,
  <<"c","o","n","f","i","g","p","a","r","s","e","r">>, <<"s","e","c","r","e","t","s">>,
  <<"h","m","a","c">>, <<"p","i","c","k","l","e">>, <<"s","h","e","l","v","e">>,
  <<"d","b","m">>, <<"g","z","i","p">>, <<"z","i","p","f","i","l","e">>, <<"t","a","r","f","i","l","e">>,
  <<"l","z","m","a">>, <<"b","z","2">>, <<"z","l","i","b">>, <<"s","i","g","n","a","l">>,
  <<"m","m","a","p">>, <<"c","t","y","p","e","s">>, <<"p","l","a","t","f","o","r","m">>,
  <<"s","y","s","c","o","n","f","i","g">>, <<"s","i","t","e">>, <<"v","e","n","v">>,
  <<"c","o","m","p","i","l","e","a","l","l">>, <<"p","y","_","c","o","m","p","i","l","e">>,
  <<"p","r","o","f","i","l","e">>, <<"c","P","r","o","f","i","l","e">>, <<"t","i","m","e","i","t">>,
  <<"t","r","a","c","e">>, <<"p","d","b">>, <<"f","a","u","l","t","h","a","n","d","l","e","r">>,
  <<"a","t","e","x","i","t">>, <<"b","u","i","l","t","i","n","s">>, <<"i","m","p","o","r","t","l","i","b">>,
  <<"p","k","g","u","t","i","l">>, <<"m","o","d","u","l","e","f","i","n","d","e","r">>,
  <<"r","u","n","p","y">>, <<"_","t","h","r","e","a","d">>, <<"c","o","n","c","u","r","r","e","n","t">>,
  <<"t","y","p","e","s">>, <<"c","o","d","e","c","s">>, <<"u","n","i","c","o","d","e","d","a","t","a">>,
  <<"s","t","r","i","n","g","p","r","e","p">>, <<"r","e","a","d","l","i","n","e">>,
  <<"r","l","c","o","m","p","l","e","t","e","r">>, <<"t","k","i","n","t","e","r">>,
  <<"t","u","r","t","l","e">>, <<"i","d","l","e","l","i","b">>, <<"t","u","r","t","l","e","d","e","m","o">>,
  <<"t","e","s","t">>, <<"d","i","s","t","u","t","i","l","s">>, <<"e","n","s","u","r","e","p","i","p">>,
  <<"l","i","b","2","t","o","3">>, <<"x","m","l","r","p","c">>, <<"e","m","a","i","l">>,
  <<"m","a","i","l","b","o","x">>, <<"m","i","m","e","t","y","p","e","s">>, <<"w","e","b","b","r","o","w","s","e","r">>,
  <<"c","g","i">>, <<"c","g","i","t","b">>, <<"w","s","g","i","r","e","f">>, <<"f","t","p","l","i","b">>,
  <<"p","o","p","l","i","b">>, <<"i","m","a","p","l","i","b">>, <<"s","m","t","p","l","i","b">>,
  <<"t","e","l","n","e","t","l","i","b">>, <<"s","o","c","k","e","t","s","e","r","v","e","r">>,
  <<"s","e","l","e","c","t">>, <<"s","e","l","e","c","t","o","r","s">>, <<"s","s","l">> }
NODE_BUILTINS == {
  <<"f","s">>, <<"p","a","t","h">>, <<"o","s">>, <<"h","t","t","p">>, <<"h","t","t","p","s">>,
  <<"u","r","l">>, <<"q","u","e","r","y","s","t","r","i","n","g">>, <<"s","t","r","e","a","m">>,
  <<"b","u","f","f","e","r">>, <<"e","v","e","n","t","s">>, <<"u","t","i","l">>,
  <<"c","r","y","p","t","o">>, <<"z","l","i","b">>, <<"n","e","t">>, <<"d","n","s">>,
  <<"t","l","s">>, <<"c","h","i","l","d","_","p","r","o","c","e","s","s">>, <<"c","l","u","s","t","e","r">>,
  <<"r","e","a","d","l","i","n","e">>, <<"r","e","p","l">>, <<"v","m">>, <<"a","s","s","e","r","t">>,
  <<"c","o","n","s","o","l","e">>, <<"p","r","o","c","e","s","s">>, <<"t","i","m","e","r","s">>,
  <<"w","o","r","k","e","r","_","t","h","r","e","a","d","s">>, <<"p","e","r","f","_","h","o","o","k","s">>,
  <<"a","s","y","n","c","_","h","o","o","k","s">>, <<"i","n","s","p","e","c","t","o","r">>,
  <<"v","8">>, <<"s","t","r","i","n","g","_","d","e","c","o","d","e","r">>, <<"p","u","n","y","c","o","d","e">>,
  <<"m","o","d","u","l","e">>, <<"n","o","d","e",":","f","s">>, <<"n","o","d","e",":","p","a","t","h">>,
  <<"n","o","d","e",":","o","s">>, <<"n","o","d","e",":","h","t","t","p">>, <<"n","o","d","e",":","h","t","t","p","s">>,
  <<"n","o","d","e",":","u","r","l">>, <<"n","o","d","e",":","c","r","y","p","t","o">>,
  <<"n","o","d","e",":","s","t","r","e","a","m">>, <<"n","o","d","e",":","e","v","e","n","t","s">>,
  <<"n","o","d","e",":","u","t","i","l">>, <<"n","o","d","e",":","c","h","i","l","d","_","p","r","o","c","e","s","s">>,
  <<"n","o","d","e",":","w","o","r","k","e","r","_","t","h","r","e","a","d","s">>,
  <<"n","o","d","e",":","n","e","t">>, <<"n","o","d","e",":","d","n","s">>, <<"n","o","d","e",":","t","l","s">>,
  <<"n","o","d","e",":","z","l","i","b">>, <<"n","o","d","e",":","a","s","s","e","r","t">>,
  <<"n","o","d","e",":","b","u","f","f","e","r">>, <<"n","o","d","e",":","r","e","a","d","l","i","n","e">>,
  <<"n","o","d","e",":","c","l","u","s","t","e","r">> }
\* the stdlib set local to normalizeDep
NormalizeStdlib == {
  <<"o","s">>, <<"s","y","s">>, <<"r","e">>, <<"j","s","o","n">>, <<"m","a","t","h">>,
  <<"d","a","t","e","t","i","m","e">>, <<"t","y","p","i","n","g">>, <<"p","a","t","h","l","i","b">>,
  <<"c","o","l","l","e","c","t","i","o","n","s">>, <<"a","b","c">>, <<"f","u","n","c","t","o","o","l","s">>,
  <<"i","t","e","r","t","o","o","l","s">>, <<"h","a","s","h","l","i","b">>, <<"l","o","g","g","i","n","g">>,
  <<"u","n","i","t","t","e","s","t">>, <<"i","o">>, <<"t","i","m","e">>, <<"r","a","n","d","o","m">>,
  <<"s","t","r","i","n","g">>, <<"c","o","p","y">>, <<"e","n","u","m">>, <<"d","a","t","a","c","l","a","s","s","e","s">>,
  <<"c","o","n","t","e","x","t","l","i","b">>, <<"a","s","y","n","c","i","o">>,
  <<"s","u","b","p","r","o","c","e","s","s">>, <<"s","h","u","t","i","l">>, <<"g","l","o","b">>,
  <<"t","e","m","p","f","i","l","e">>, <<"t","h","r","e","a","d","i","n","g">>,
  <<"m","u","l","t","i","p","r","o","c","e","s","s","i","n","g">>, <<"s","o","c","k","e","t">>,
  <<"h","t","t","p">>, <<"u","r","l","l","i","b">>, <<"b","a","s","e","6","4">>,
  <<"c","s","v">>, <<"x","m","l">>, <<"h","t","m","l">>, <<"s","q","l","i","t","e","3">>,
  <<"s","t","r","u","c","t">>, <<"a","r","g","p","a","r","s","e">>, <<"t","e","x","t","w","r","a","p">>,
  <<"u","u","i","d">>, <<"d","e","c","i","m","a","l">>, <<"f","r","a","c","t","i","o","n","s">>,
  <<"s","t","a","t","i","s","t","i","c","s">>, <<"o","p","e","r","a","t","o","r">>,
  <<"p","p","r","i","n","t">>, <<"w","a","r","n","i","n","g","s">>, <<"t","r","a","c","e","b","a","c","k">>,
  <<"i","n","s","p","e","c","t">>, <<"d","i","s">>, <<"g","c">>, <<"w","e","a","k","r","e","f">>,
  <<"a","r","r","a","y">>, <<"q","u","e","u","e">>, <<"h","e","a","p","q">>, <<"b","i","s","e","c","t">>,
  <<"c","o","n","f","i","g","p","a","r","s","e","r">>, <<"s","e","c","r","e","t","s">>,
  <<"h","m","a","c">>, <<"p","i","c","k","l","e">>, <<"s","h","e","l","v","e">>,
  <<"d","b","m">>, <<"g","z","i","p">>, <<"z","i","p","f","i","l","e">>, <<"t","a","r","f","i","l","e">>,
  <<"l","z","m","a">>, <<"b","z","2">>, <<"z","l","i","b">>, <<"s","i","g","n","a","l">>,
  <<"m","m","a","p">>, <<"c","t","y","p","e","s">>, <<"p","l","a","t","f","o","r","m">>,
  <<"s","y","s","c","o","n","f","i","g">>, <<"s","i","t","e">>, <<"v","e","n","v">>,
  <<"c","o","m","p","i","l","e","a","l","l">>, <<"p","y","_","c","o","m","p","i","l","e">>,
  <<"p","r","o","f","i","l","e">>, <<"c","P","r","o","f","i","l","e">>, <<"t","i","m","e","i","t">>,
  <<"t","r","a","c","e">>, <<"p","d","b">>, <<"f","a","u","l","t","h","a","n","d","l","e","r">>,
  <<"a","t","e","x","i","t">>, <<"b","u","i","l","t","i","n","s">>, <<"i","m","p","o","r","t","l","i","b">>,
  <<"p","k","g","u","t","i","l">>, <<"m","o","d","u","l","e","f","i","n","d","e","r">>,
  <<"r","u","n","p","y">>, <<"_","t","h","r","e","a","d">>, <<"c","o","n","c","u","r","r","e","n","t">>,
  <<"t","y","p","e","s">>, <<"c","o","d","e","c","s">>, <<"u","n","i","c","o","d","e","d","a","t","a">>,
  <<"s","t","r","i","n","g","p","r","e","p">>, <<"r","e","a","d","l","i","n","e">>,
  <<"r","l","c","o","m","p","l","e","t","e","r">> }
KwPipInstall == <<"p","i","p"," ","i","n","s","t","a","l","l"," ">>
KwNpmInstall == <<"n","p","m"," ","i","n","s","t","a","l","l"," ">>
KwComposerRequire == <<"c","o","m","p","o","s","e","r"," ","r","e","q","u","i","r","e"," ">>
KwDependencies == <<"d","e","p","e","n","d","e","n","c","i","e","s">>
PhpInternalRoots == {<<"A","p","p">>, <<"D","a","t","a","b","a","s","e">>, <<"T","e","s","t","s">>}
MaxWalk == 5                                  \* for (let i = 0; i < 5; i++)
PipHeaderLines == 2                           \* result.split('\n').slice(2)
ScopeParts == 2                               \* .slice(0, 2)
\* language.startsWith('javascript') || language.startsWith('typescript'), over the language ids
JsTsLangs == {"javascript", "javascriptreact", "typescript", "typescriptreact"}

\* s.split(/[...]/) on the characters of C: the pieces between them
RECURSIVE SplitAny(_, _)
SplitAny(s, C) ==
  LET H == {p \in 1..Len(s) : s[p] \in C} IN
  IF H = {} THEN <<s>> ELSE <<SubSeq(s, 1, Min(H) - 1)>> \o SplitAny(SubSeq(s, Min(H) + 1, Len(s)), C)
\* s.replace(/a/g, b) for single characters
ReplaceCh(s, a, b) == [i \in 1..Len(s) |-> IF s[i] = a THEN b ELSE s[i]]

(* The file system seen by getInstalledPackages: fsys.files maps a path (a   *)
(* sequence of components) to its content, fsys.pip is the output of the    *)
(* pip list command or PipFails.                                            *)
PipFails == "fails"
BadJson == [unparsable |-> TRUE]           \* a manifest on which JSON.parse throws
Exists(path) == path \in DOMAIN fsys.files
dirname(path) == IF Len(path) = 0 THEN path ELSE SubSeq(path, 1, Len(path) - 1)
Lowered(S) == {LowerStr(x) : x \in S}

\* requirements.txt: line.trim().split(/[=<>!~\[]/)[0].trim().toLowerCase(), kept unless
\* empty or starting with '#' or '-'
RequirementNames(content) ==
  LET N == {LowerStr(Trim(SplitAny(Trim(l), {"=", "<", ">", "!", "~", "["})[1])) :
              l \in {LinesOf(content)[i] : i \in 1..Len(LinesOf(content))}}
  IN {n \in N : n # <<>> /\ ~StartsWith(n, <<"#">>) /\ ~StartsWith(n, <<"-">>)}
\* pyproject.toml: content.match(/dependencies\s*=\s*\[([\s\S]*?)\]/), then
\* matchAll(/["']([^"'>=<\s]+)/g) over the captured list
PyprojectList(content) ==
  LET H == {p \in 1..Len(content) :
              /\ At(content, p, KwDependencies)
              /\ Ch(content, Run(content, p + Len(KwDependencies), WsNl)) = "="
              /\ Ch(content, Run(content, Run(content, p + Len(KwDependencies), WsNl) + 1, WsNl)) = "["
              /\ IndexFrom(content, <<"]">>,
                   Run(content, Run(content, p + Len(KwDependencies), WsNl) + 1, WsNl) + 1) # 0}
      open == Run(content, Run(content, Min(H) + Len(KwDependencies), WsNl) + 1, WsNl)
  IN IF H = {} THEN [ok |-> FALSE, list |-> <<>>]
     ELSE [ok |-> TRUE, list |-> SubSeq(content, open + 1, IndexFrom(content, <<"]">>, open + 1) - 1)]
RECURSIVE QuotedNames(_, _)
QuotedNames(s, p) ==
  LET stop == {DQ, SQ, ">", "=", "<"} \cup WsNl
      H == {q \in p..Len(s) : s[q] \in {DQ, SQ} /\ q < Len(s) /\ s[q + 1] \notin stop}
      e == Min({k \in (Min(H) + 1)..Len(s) : s[k] \in stop} \cup {Len(s) + 1})
  IN IF H = {} THEN {} ELSE {LowerStr(Trim(SubSeq(s, Min(H) + 1, e - 1)))} \cup QuotedNames(s, e)
PyprojectNames(content) ==
  IF PyprojectList(content).ok THEN QuotedNames(PyprojectList(content).list, 1) ELSE {}
\* pip list: line.trim().split(/\s+/)[0] of every line after the two header lines
PipNames ==
  IF fsys.pip = PipFails THEN {}
  ELSE LET ls == LinesOf(fsys.pip)
           N == {LowerStr(SubSeq(Trim(ls[i]), 1, Min({k \in 1..Len(Trim(ls[i])) : Trim(ls[i])[k] \in WsCh}
                                                   \cup {Len(Trim(ls[i])) + 1}) - 1)) :
                   i \in (PipHeaderLines + 1)..Len(ls)}
       IN N \ {<<>>}
\* Object.keys of the dependency maps of a parsed package.json / composer.json
ManifestKeys(path, Fields) ==
  IF "unparsable" \in DOMAIN fsys.files[path] THEN {}
  ELSE Lowered(UNION {fsys.files[path][f] : f \in Fields \cap DOMAIN fsys.files[path]})

\* getInstalledPackages: the walk from dir, iteration i, with the names added so far;
\* [isNull, pkgs] stands for Set<string> | null
RECURSIVE InstalledWalk(_, _, _, _)
InstalledWalk(dir, i, installed, language) ==
  LET pkg == Append(dir, <<"p","a","c","k","a","g","e",".","j","s","o","n">>)
      nm == Append(dir, <<"n","o","d","e","_","m","o","d","u","l","e","s">>)
      req == Append(dir, <<"r","e","q","u","i","r","e","m","e","n","t","s",".","t","x","t">>)
      pyp == Append(dir, <<"p","y","p","r","o","j","e","c","t",".","t","o","m","l">>)
      comp == Append(dir, <<"c","o","m","p","o","s","e","r",".","j","s","o","n">>)
      py == installed
              \cup (IF Exists(req) THEN RequirementNames(fsys.files[req]) ELSE {})
              \cup (IF Exists(pyp) THEN PyprojectNames(fsys.files[pyp]) ELSE {})
              \cup PipNames
      after == IF language = "python" THEN py ELSE installed
      end == [isNull |-> after = {}, pkgs |-> after]
  IN
  IF i >= MaxWalk THEN [isNull |-> installed = {}, pkgs |-> installed]
  ELSE IF language \in JsTsLangs /\ Exists(pkg)
    THEN [isNull |-> FALSE,
          pkgs |-> installed \cup ManifestKeys(pkg, {"dependencies", "devDependencies", "peerDependencies"})
                     \cup (IF Exists(nm) THEN Lowered(fsys.files[nm]) ELSE {})]
  ELSE IF language = "python" /\ py # {} THEN [isNull |-> FALSE, pkgs |-> py]
  ELSE IF language = "php" /\ Exists(comp)
    THEN [isNull |-> FALSE, pkgs |-> installed \cup ManifestKeys(comp, {"require", "require-dev"})]
  ELSE IF dirname(dir) = dir THEN end
  ELSE InstalledWalk(dirname(dir), i + 1, after, language)
getInstalledPackages(filePath, language) == InstalledWalk(dirname(filePath), 0, {}, language)

isExternalImport(imp, language) ==
  IF language = "python" THEN ~StartsWith(imp.module, <<".">>)
  ELSE IF language \in JsTsLangs \/ language = "php"
    THEN ~StartsWith(imp.module, <<".">>) /\ ~StartsWith(imp.module, <<"/">>)
  ELSE TRUE
\* normalizeDep: [isNull, name] stands for string | null
normalizeDep(module, language) ==
  IF language = "python"
    THEN [isNull |-> SplitAny(module, {"."})[1] \in NormalizeStdlib, name |-> SplitAny(module, {"."})[1]]
  ELSE IF language \in JsTsLangs
    THEN [isNull |-> FALSE,
          name |-> IF StartsWith(module, <<"@">>)
                     THEN Join(SubSeq(SplitAny(module, {"/"}), 1,
                                      Min({ScopeParts, Len(SplitAny(module, {"/"}))})), "/")
                     ELSE SplitAny(module, {"/"})[1]]
  ELSE IF language = "php"
    THEN [isNull |-> SplitAny(module, {BS})[1] \in PhpInternalRoots,
          name |-> LowerStr(Join(SubSeq(SplitAny(module, {BS}), 1,
                                        Min({ScopeParts, Len(SplitAny(module, {BS}))})), "/"))]
  ELSE [isNull |-> FALSE, name |-> module]
\* the filter that keeps the external, non-stdlib imports
IsExternalDep(imp, language) ==
  /\ isExternalImport(imp, language)
  /\ ~(language = "python" /\ SplitAny(imp.module, {".", "/", BS})[1] \in PY_STDLIB)
  /\ ~(language \in JsTsLangs /\ imp.module \in NODE_BUILTINS)
  /\ ~(language = "php" /\ SplitAny(imp.module, {BS})[1] \in PhpInternalRoots)
\* the status test without the size guard: if (installed) instead of
\* if (installed && installed.size > 0)
DepStatusNoSizeGuard(depName, installed) ==
  IF ~installed.isNull
    THEN IF \/ LowerStr(depName) \in installed.pkgs
            \/ ReplaceCh(LowerStr(depName), "-", "_") \in installed.pkgs
            \/ ReplaceCh(LowerStr(depName), "_", "-") \in installed.pkgs
           THEN "installed" ELSE "missing"
    ELSE "unknown"
DepStatus(depName, installed) ==
  IF ~installed.isNull /\ installed.pkgs # {}
    THEN IF \/ LowerStr(depName) \in installed.pkgs
            \/ ReplaceCh(LowerStr(depName), "-", "_") \in installed.pkgs
            \/ ReplaceCh(LowerStr(depName), "_", "-") \in installed.pkgs
           THEN "installed" ELSE "missing"
    ELSE "unknown"
\* the install hint built whatever the status: the test status !== 'installed' left out
InstallCmdAlways(depName, status, language) ==
  IF language = "python" THEN KwPipInstall \o depName
  ELSE IF language \in JsTsLangs THEN KwNpmInstall \o depName
  ELSE IF language = "php" THEN KwComposerRequire \o depName
  ELSE <<>>
InstallCmd(depName, status, language) ==
  IF status = "installed" THEN <<>>
  ELSE IF language = "python" THEN KwPipInstall \o depName
  ELSE IF language \in JsTsLangs THEN KwNpmInstall \o depName
  ELSE IF language = "php" THEN KwComposerRequire \o depName
  ELSE <<>>
checkDependencies(imports, filePath, language) ==
  LET ext == FilterSeq(imports, LAMBDA imp : IsExternalDep(imp, language))
      \* if (!depName) continue: null and the empty string are both skipped
      kept == FilterSeq(ext, LAMBDA imp : /\ ~normalizeDep(imp.module, language).isNull
                                          /\ normalizeDep(imp.module, language).name # <<>>)
      installed == getInstalledPackages(filePath, language)
  IN [k \in 1..Len(kept) |->
        LET depName == normalizeDep(kept[k].module, language).name
            status == DepStatus(depName, installed) IN
        [name |-> depName, status |-> status, lineNumber |-> kept[k].lineNumber,
         installCmd |-> InstallCmd(depName, status, language)]]


(***************************************************************************)
(* Specification of the dependency check                                   *)
(***************************************************************************)
MaxImports == 2
DepLangs == {"python", "javascript", "typescriptreact", "php", "html"}
DepModules == {
  <<"r","e","q","u","e","s","t","s">>, <<"o","s",".","p","a","t","h">>, <<".","l","o","c","a","l">>,
  <<"m","y","-","p","k","g">>, <<"@","s","/","p","/","x">>, <<"V","e","n","d","o","r",BS,"P","k","g",BS,"X">>,
  <<"f","s","/","p","r","o","m","i","s","e","s">> }
\* the analysed file, six directories deep: the walk of MaxWalk levels stops below "r"
DepFilePath == <<<<"r">>, <<"d","4">>, <<"d","3">>, <<"d","2">>, <<"d","1">>, <<"d","0">>, <<"a",".","s","r","c">>>>
NoFiles == [p \in {} |-> <<>>]
OneFile(path, content) == [p \in {path} |-> content]
RequirementsText == Join(<<<<"R","e","q","u","e","s","t","s","=","=","2",".","0">>, <<"#"," ","n","o","t","e">>, <<"-","r"," ","b","a","s","e",".","t","x","t">>, <<" ","m","y","_","p","k","g"," ",">","=","1"," ">>>>, NL)
PyprojectText == Join(<<<<"[","p","r","o","j","e","c","t","]">>, <<"d","e","p","e","n","d","e","n","c","i","e","s"," ","="," ","[">>, <<" ",DQ,"R","e","q","u","e","s","t","s",">","=","2",DQ,","," ",SQ,"m","y","_","p","k","g",SQ," ","]">>>>, NL)
PackageJson == [dependencies |-> {<<"r","e","q","u","e","s","t","s">>}, devDependencies |-> {<<"@","s","/","p">>}]
ComposerJson == [require |-> {<<"v","e","n","d","o","r","/","p","k","g">>}]
DepFiles == {
  NoFiles,
  OneFile(Append(dirname(DepFilePath), <<"r","e","q","u","i","r","e","m","e","n","t","s",".","t","x","t">>), RequirementsText),
  OneFile(Append(dirname(DepFilePath), <<"r","e","q","u","i","r","e","m","e","n","t","s",".","t","x","t">>), <<>>),
  OneFile(<<<<"r">>, <<"r","e","q","u","i","r","e","m","e","n","t","s",".","t","x","t">>>>, RequirementsText),
  OneFile(<<<<"r">>, <<"d","4">>, <<"p","y","p","r","o","j","e","c","t",".","t","o","m","l">>>>, PyprojectText),
  OneFile(<<<<"r">>, <<"d","4">>, <<"d","3">>, <<"p","a","c","k","a","g","e",".","j","s","o","n">>>>, PackageJson),
  OneFile(<<<<"r">>, <<"p","a","c","k","a","g","e",".","j","s","o","n">>>>, PackageJson),
  OneFile(Append(dirname(DepFilePath), <<"p","a","c","k","a","g","e",".","j","s","o","n">>), BadJson),
  [p \in {<<<<"r">>, <<"d","4">>, <<"p","a","c","k","a","g","e",".","j","s","o","n">>>>, <<<<"r">>, <<"d","4">>, <<"n","o","d","e","_","m","o","d","u","l","e","s">>>>} |->
     IF p = <<<<"r">>, <<"d","4">>, <<"p","a","c","k","a","g","e",".","j","s","o","n">>>> THEN BadJson ELSE {<<"m","y","_","p","k","g">>}],
  OneFile(Append(dirname(DepFilePath), <<"c","o","m","p","o","s","e","r",".","j","s","o","n">>), ComposerJson) }
PipOutputs == {
  PipFails,
  Join(<<<<"P","a","c","k","a","g","e"," ","V","e","r","s","i","o","n">>, <<"-","-","-","-","-","-","-"," ","-","-","-","-","-","-","-">>>>, NL),
  Join(<<<<"P","a","c","k","a","g","e"," ","V","e","r","s","i","o","n">>, <<"-","-","-","-","-","-","-"," ","-","-","-","-","-","-","-">>, <<"r","e","q","u","e","s","t","s"," ","2",".","0">>, <<>>>>, NL) }

InitDeps ==
  /\ lang \in DepLangs
  /\ stats \in {[imports |-> [k \in 1..Len(ms) |-> ImportInfo(ms[k], <<>>, TRUE, k)]] :
                  ms \in UNION {[1..n -> DepModules] : n \in 1..MaxImports}}
  /\ fsys \in [files : DepFiles, pip : PipOutputs]
  /\ pc = "ready"
  /\ code = Idle /\ lastStats = Idle /\ heap = Idle /\ reqs = Idle
  /\ provider = Idle /\ delivered = Idle

\* analyzeDoc: lastStats.depIssues = checkDependencies(lastStats.imports, doc.fileName, doc.languageId)
CheckDeps ==
  /\ pc = "ready"
  /\ stats' = [imports |-> stats.imports,
               depIssues |-> checkDependencies(stats.imports, DepFilePath, lang)]
  /\ pc' = "done"
  /\ UNCHANGED <<lang, code, fsys, lastStats, heap, reqs, provider, delivered>>

NextDeps == CheckDeps
SpecDeps == InitDeps /\ [][NextDeps]_vars

\* no manifest and no installed-package signal: the installed set is absent or empty
NoInstalledSignal ==
  getInstalledPackages(DepFilePath, lang).isNull \/ getInstalledPackages(DepFilePath, lang).pkgs = {}

\* C10 (as stated): with no manifest and no installed-package signal every reported
\* dependency has status unknown and carries no install hint.
C10_UnknownWithoutHint ==
  (pc = "done" /\ NoInstalledSignal) =>
    \A k \in 1..Len(stats.depIssues) :
      stats.depIssues[k].status = "unknown" /\ stats.depIssues[k].installCmd = <<>>

\* C10 (amended): with no manifest and no installed-package signal every reported
\* dependency has status unknown; its install hint is the language's install command
\* followed by the package name for Python, JS/TS and PHP files, and is empty only for
\* the other languages.
C10_UnknownWithLanguageHint ==
  (pc = "done" /\ NoInstalledSignal) =>
    \A k \in 1..Len(stats.depIssues) :
      LET d == stats.depIssues[k] IN
      /\ d.status = "unknown"
      /\ lang = "python" => d.installCmd = <<"p","i","p"," ","i","n","s","t","a","l","l"," ">> \o d.name
      /\ lang \in {"javascript", "typescriptreact"} => d.installCmd = <<"n","p","m"," ","i","n","s","t","a","l","l"," ">> \o d.name
      /\ lang = "php" => d.installCmd = <<"c","o","m","p","o","s","e","r"," ","r","e","q","u","i","r","e"," ">> \o d.name
      /\ lang = "html" => d.installCmd = <<>>
\* a Python file with an external import, checked where a package.json-less, pip-less
\* environment gives no signal: the issue is unknown and carries the pip hint
C10_Witness ==
  /\ pc = "done" /\ NoInstalledSignal /\ lang = "python"
  /\ \E k \in 1..Len(stats.depIssues) :
       /\ stats.depIssues[k].status = "unknown"
       /\ stats.depIssues[k].installCmd = <<"p","i","p"," ","i","n","s","t","a","l","l"," ","r","e","q","u","e","s","t","s">>

\* the single-package install command of a language that has a package manager
HasInstaller == lang \in {"python", "javascript", "typescriptreact", "php"}
InstallPrefix ==
  IF lang = "python" THEN <<"p","i","p"," ","i","n","s","t","a","l","l"," ">>
  ELSE IF lang = "php" THEN <<"c","o","m","p","o","s","e","r"," ","r","e","q","u","i","r","e"," ">>
  ELSE <<"n","p","m"," ","i","n","s","t","a","l","l"," ">>

\* C11 (as stated): every reported dependency whose status is not installed carries the
\* non-empty hint "pip install" / "npm install" / "composer require" followed by its
\* normalized name, and every dependency with status installed carries none.
C11_HintIffNotInstalled ==
  pc = "done" =>
    \A k \in 1..Len(stats.depIssues) :
      LET d == stats.depIssues[k] IN
      IF d.status = "installed" THEN d.installCmd = <<>>
      ELSE HasInstaller /\ d.name # <<>> /\ d.installCmd = InstallPrefix \o d.name

\* C11 (amended): for Python, JS/TS and PHP files every reported dependency whose status
\* is not installed carries the language's install command followed by its non-empty
\* normalized name; every dependency with status installed carries no hint, and so does
\* every dependency of a file in a language without a package manager (HTML, CSS).
C11_HintIffNotInstalledWithInstaller ==
  pc = "done" =>
    \A k \in 1..Len(stats.depIssues) :
      LET d == stats.depIssues[k] IN
      /\ d.name # <<>>
      /\ IF d.status = "installed" \/ ~HasInstaller THEN d.installCmd = <<>>
         ELSE d.installCmd = InstallPrefix \o d.name
\* a check that reports one installed dependency (no hint) next to one that is not
\* installed (with the hint)
C11_Witness ==
  /\ pc = "done" /\ HasInstaller
  /\ \E k \in 1..Len(stats.depIssues) :
       stats.depIssues[k].status = "installed" /\ stats.depIssues[k].installCmd = <<>>
  /\ \E k \in 1..Len(stats.depIssues) :
       /\ stats.depIssues[k].status = "missing"
       /\ stats.depIssues[k].installCmd = InstallPrefix \o stats.depIssues[k].name

\* the root identifier of a module path: its first segment
RootIdentifier(module) == SplitAny(module, IF lang = "python" THEN {"."} ELSE {"/"})[1]
\* the standard-library / builtin allow-list of the language of the file
AllowList ==
  IF lang = "python" THEN PY_STDLIB
  ELSE IF lang \in {"javascript", "typescriptreact"} THEN NODE_BUILTINS
  ELSE {}
\* the imports that must never be reported: relative ones and those rooted in the allow-list
Relative(imp) == Len(imp.module) > 0 /\ imp.module[1] = "."
Builtin(imp) == RootIdentifier(imp.module) \in AllowList
ReportedImport(imp) == \E k \in 1..Len(stats.depIssues) : stats.depIssues[k].lineNumber = imp.lineNumber

\* C12: checkDependencies reports no dependency for an import whose module path starts
\* with a relative marker, nor for one whose root identifier is in the allow-list of the
\* language, Python dotted paths and JS/TS sub-paths of a builtin module included.
C12_NoRelativeNoBuiltin ==
  pc = "done" =>
    \A k \in 1..Len(stats.imports) :
      (Relative(stats.imports[k]) \/ Builtin(stats.imports[k])) => ~ReportedImport(stats.imports[k])


(***************************************************************************)
(* Code-line counters of the extractors                                    *)
(***************************************************************************)
\* the for-of loop of a counter: Step over every line, from the state start
FoldLines(lines, start, Step(_, _)) ==
  LET F[i \in 0..Len(lines)] == IF i = 0 THEN start ELSE Step(F[i - 1], lines[i]) IN F[Len(lines)]
\* the loop body of countCodeLines
PyCountStep(st, line) ==
  LET t == Trim(line) IN
  IF StartsWith(t, <<DQ, DQ, DQ>>) \/ StartsWith(t, <<SQ, SQ, SQ>>)
    THEN IF st.flag THEN [count |-> st.count, flag |-> FALSE]
         ELSE IF Len(t) > 3 /\ EndsWith(t, SubSeq(t, 1, 3)) THEN st
         ELSE [count |-> st.count, flag |-> TRUE]
  ELSE IF st.flag \/ t = <<>> \/ StartsWith(t, <<"#">>) THEN st
  ELSE [count |-> st.count + 1, flag |-> st.flag]
\* countCodeLines with the counter started at 1 instead of 0
countCodeLinesFromOne(lines) == FoldLines(lines, [count |-> 1, flag |-> FALSE], PyCountStep).count
countCodeLines(lines) == FoldLines(lines, [count |-> 0, flag |-> FALSE], PyCountStep).count
\* the loop body of countJsCodeLines and countPhpCodeLines; Skipped(t) is the test of the
\* lines that are not counted outside a block comment
BlockCountStep(st, line, Skipped(_)) ==
  LET t == Trim(line)
      inBlock == st.flag \/ StartsWith(t, <<"/", "*">>) IN
  IF inBlock THEN [count |-> st.count, flag |-> ~Includes(t, <<"*", "/">>)]
  ELSE IF Skipped(t) THEN st
  ELSE [count |-> st.count + 1, flag |-> FALSE]
countJsCodeLines(lines) ==
  FoldLines(lines, [count |-> 0, flag |-> FALSE],
            LAMBDA st, l : BlockCountStep(st, l, LAMBDA t : t = <<>> \/ StartsWith(t, <<"/", "/">>))).count
countPhpCodeLines(lines) ==
  FoldLines(lines, [count |-> 0, flag |-> FALSE],
            LAMBDA st, l : BlockCountStep(st, l, LAMBDA t :
              \/ t = <<>> \/ StartsWith(t, <<"/", "/">>) \/ StartsWith(t, <<"#">>)
              \/ t = <<"<","?","p","h","p">> \/ t = <<"?",">">>)).count
\* the loop body of countHtmlCodeLines (HTML and CSS)
HtmlCountStep(st, line) ==
  LET t == Trim(line)
      inComment == st.flag \/ Includes(t, <<"<","!","-","-">>) IN
  IF inComment THEN [count |-> st.count, flag |-> ~Includes(t, <<"-","-",">">>)]
  ELSE IF t = <<>> THEN st
  ELSE [count |-> st.count + 1, flag |-> FALSE]
countHtmlCodeLines(lines) == FoldLines(lines, [count |-> 0, flag |-> FALSE], HtmlCountStep).count

(***************************************************************************)
(* Specification of the line counts of the five extractors                 *)
(***************************************************************************)
MaxCountLines == 3
CountPool == {
  <<"x"," ","="," ","1">>, <<>>, <<" "," ","#"," ","c">>, <<"/","/"," ","c">>, <<DQ,DQ,DQ,"d","o","c",DQ,DQ,DQ>>, <<DQ,DQ,DQ>>, <<"/","*"," ","c">>, <<"c"," ","*","/"," ","y">>, <<"<","!","-","-"," ","c">>, <<"-","-",">"," ","<","p",">">>, <<"<","?","p","h","p">> }
\* the language ids of the router and the extractor each one selects (parseCode)
CountLangs == {"python", "javascript", "typescript", "php", "html", "css"}

InitCount ==
  /\ lang \in CountLangs
  /\ code \in FilesOver(CountPool, MaxCountLines)
  /\ pc = "ready"
  /\ stats = Idle
  /\ fsys = Idle /\ lastStats = Idle /\ heap = Idle /\ reqs = Idle
  /\ provider = Idle /\ delivered = Idle

\* the totalLines and codeLines of the summary an extractor returns
LineCounts(Counter(_)) ==
  /\ pc = "ready"
  /\ stats' = [totalLines |-> Len(LinesOf(code)), codeLines |-> Counter(LinesOf(code))]
  /\ pc' = "done"
  /\ UNCHANGED <<lang, code, fsys, lastStats, heap, reqs, provider, delivered>>
\* parseCode: case 'python' -> parsePythonCode
CountPython == lang = "python" /\ LineCounts(countCodeLines)
\* parseCode: case 'javascript' | 'typescript' | ... -> parseJsCode
CountJs == lang \in {"javascript", "typescript"} /\ LineCounts(countJsCodeLines)
\* parseCode: case 'php' -> parsePhpCode
CountPhp == lang = "php" /\ LineCounts(countPhpCodeLines)
\* parseCode: case 'html' -> parseHtmlCode
CountHtml == lang = "html" /\ LineCounts(countHtmlCodeLines)
\* parseCode: case 'css' -> parseCssCode
CountCss == lang = "css" /\ LineCounts(countHtmlCodeLines)

NextCount == CountPython \/ CountJs \/ CountPhp \/ CountHtml \/ CountCss
SpecCount == InitCount /\ [][NextCount]_vars

\* C8: for every input and every extractor the summary has codeLines <= totalLines, where
\* totalLines is the number of newline-separated lines of the input.
C8_CodeLinesAtMostTotal ==
  pc = "done" =>
    /\ stats.totalLines = CountCh(code, NL) + 1
    /\ stats.codeLines <= stats.totalLines
\* a file of several lines, every one of them counted as code
C8_Witness ==
  pc = "done" /\ stats.totalLines >= 2 /\ stats.codeLines = stats.totalLines


(***************************************************************************)
(* The annotation block: parseMetaBlock of pythonParser.ts and of          *)
(* parserUtils.ts                                                          *)
(***************************************************************************)
CommentOpeners == {<<"#">>, <<"/", "/">>, <<"*">>, <<"<", "!", "-", "-">>}
\* an optional value of a record of the program: undefined, or a value
Undefined == [def |-> FALSE, val |-> <<>>]
Some(v) == [def |-> TRUE, val |-> v]
NoRaw == [k \in {} |-> <<>>]
RawPut(raw, k, v) == [x \in DOMAIN raw \cup {k} |-> IF x = k THEN v ELSE raw[x]]
RawGet(raw, k) == IF k \in DOMAIN raw THEN Some(raw[k]) ELSE Undefined
\* the newline-terminated header ---meta\s*\n that starts at q: the positions just after a
\* newline of the whitespace that follows it
HeaderEnds(text, q) ==
  {n + 1 : n \in {k \in (q + Len(KwMeta))..(Run(text, q + Len(KwMeta), WsNl) - 1) : text[k] = NL}}
\* /\n#?\s*---/ at c
PyCloserAt(text, c) ==
  /\ c <= Len(text) /\ text[c] = NL
  /\ LET a == IF c + 1 <= Len(text) /\ text[c + 1] = "#" THEN c + 2 ELSE c + 1
     IN At(text, Run(text, a, WsNl), KwDashes)
\* /\n\s*(?:#|\/\/|\*|<!--)\s*---/ at c
SharedCloserAt(text, c) ==
  /\ c <= Len(text) /\ text[c] = NL
  /\ \E e \in PAny(text, {Run(text, c + 1, WsNl)}, CommentOpeners) :
       At(text, Run(text, e, WsNl), KwDashes)
\* /(?:#|\/\/|\/?\*|<!--)\s*---meta/ ending in the ---meta at q
SharedOpenerBefore(text, q) ==
  LET r == RunBack(text, q, WsNl) IN \E w \in CommentOpeners : At(text, r - Len(w), w)
\* the text captured between header and closer by the first match, or no match: the header
\* takes as much whitespace as leaves a closer after it, the body ends at the first closer
MetaCapture(text, opens, closers) ==
  LET Body(q) == {b \in HeaderEnds(text, q) : \E c \in closers : c >= b}
      Q == {q \in opens : Body(q) # {}}
      Cut(b) == SubSeq(text, b, Min({c \in closers : c >= b}) - 1)
  IN IF Q = {} THEN Undefined ELSE Some(Cut(Max(Body(Min(Q)))))
PyMetaCapture(text) ==
  MetaCapture(text, {q \in AllPos(text) : At(text, q, KwMeta)},
              {c \in 1..Len(text) : PyCloserAt(text, c)})
SharedMetaCapture(text) ==
  MetaCapture(text, {q \in AllPos(text) : At(text, q, KwMeta) /\ SharedOpenerBefore(text, q)},
              {c \in 1..Len(text) : SharedCloserAt(text, c)})
\* pythonParser.ts: line.replace(/^#\s*/, '') then /^(\w+)\s*:\s*(.+)$/ and raw[key] = value
PyMetaLine(raw, line) ==
  LET cleaned == IF Len(line) > 0 /\ line[1] = "#"
                   THEN SubSeq(line, Run(line, 2, WsCh), Len(line)) ELSE line
      k == Run(cleaned, 1, WordCh)
      a == Run(cleaned, k, WsCh)
  IN IF k > 1 /\ a <= Len(cleaned) /\ cleaned[a] = ":" /\ a + 1 <= Len(cleaned)
       THEN RawPut(raw, SubSeq(cleaned, 1, k - 1), Trim(SubSeq(cleaned, a + 1, Len(cleaned))))
       ELSE raw
\* parserUtils.ts: the comment prefix stripped, the line cut at its first colon
SharedMetaLine(raw, line) ==
  LET a == Run(line, 1, WsCh)
      E == PAny(line, {a}, CommentOpeners)
      First == IF At(line, a, <<"#">>) THEN a + 1
               ELSE IF At(line, a, <<"/", "/">>) THEN a + 2
               ELSE IF At(line, a, <<"*">>) THEN a + 1 ELSE a + 4
      clean == Trim(IF E = {} THEN line ELSE SubSeq(line, Run(line, First, WsCh), Len(line)))
      sep == IndexOf(clean, <<":">>)
  IN IF sep > 1
       THEN RawPut(raw, Trim(SubSeq(clean, 1, sep - 1)), Trim(SubSeq(clean, sep + 1, Len(clean))))
       ELSE raw
\* the items of a comma-separated text, each trimmed
TrimmedItems(s) == LET parts == Split(s, ",") IN [i \in 1..Len(parts) |-> Trim(parts[i])]
NonEmptyItems(items) == LET I == SelectIdx(Len(items), LAMBDA i : items[i] # <<>>) IN [k \in 1..Len(I) |-> items[I[k]]]
\* pythonParser.ts parseList: val.replace(/^\[|\]$/g, '').split(',').map(trim).filter(Boolean)
PyParseList(v) ==
  IF ~v.def \/ v.val = <<>> THEN <<>>
  ELSE LET s1 == IF v.val[1] = "[" THEN Tail(v.val) ELSE v.val
           s2 == IF Len(s1) > 0 /\ s1[Len(s1)] = "]" THEN SubSeq(s1, 1, Len(s1) - 1) ELSE s1
       IN NonEmptyItems(TrimmedItems(s2))
\* parserUtils.ts parseList: s.match(/\[(.+)\]/) ? m[1].split(',').map(trim) : [s]
SharedParseList(v) ==
  IF ~v.def \/ v.val = <<>> THEN Undefined
  ELSE LET i == IndexOf(v.val, <<"[">>)
           L == Max({k \in 1..Len(v.val) : v.val[k] = "]"} \cup {0})
       IN IF i > 0 /\ L >= i + 2 THEN Some(TrimmedItems(SubSeq(v.val, i + 1, L - 1)))
          ELSE Some(<<v.val>>)
KeyName == <<"n","a","m","e">>
KeyType == <<"t","y","p","e">>
KeyDesc == <<"d","e","s","c">>
KeyIn == <<"i","n">>
KeyOut == <<"o","u","t">>
KeyDeps == <<"d","e","p","s">>
KeyMethods == <<"m","e","t","h","o","d","s">>
KeyErrors == <<"e","r","r","o","r","s">>
NullMeta == [isNull |-> TRUE]
\* pythonParser.ts parseMetaBlock
parseMetaBlockPy(text) ==
  LET Block(cap) ==
        IF ~cap.def THEN NullMeta
        ELSE LET Fields(raw) ==
                   [isNull |-> FALSE, name |-> RawGet(raw, KeyName), type |-> RawGet(raw, KeyType),
                    desc |-> RawGet(raw, KeyDesc),
                    inputs |-> Some(PyParseList(RawGet(raw, KeyIn))),
                    outputs |-> Some(PyParseList(RawGet(raw, KeyOut))),
                    deps |-> Some(PyParseList(RawGet(raw, KeyDeps))),
                    methods |-> Some(PyParseList(RawGet(raw, KeyMethods))),
                    errors |-> Some(PyParseList(RawGet(raw, KeyErrors))), raw |-> raw]
             IN Fields(FoldLines(Split(cap.val, NL), NoRaw, PyMetaLine))
  IN Block(PyMetaCapture(text))
\* parserUtils.ts parseMetaBlock
parseMetaBlock(text) ==
  LET Block(cap) ==
        IF ~cap.def THEN NullMeta
        ELSE LET Fields(raw) ==
                   [isNull |-> FALSE, name |-> RawGet(raw, KeyName), type |-> RawGet(raw, KeyType),
                    desc |-> RawGet(raw, KeyDesc),
                    inputs |-> SharedParseList(RawGet(raw, KeyIn)),
                    outputs |-> SharedParseList(RawGet(raw, KeyOut)),
                    deps |-> SharedParseList(RawGet(raw, KeyDeps)),
                    methods |-> SharedParseList(RawGet(raw, KeyMethods)),
                    errors |-> SharedParseList(RawGet(raw, KeyErrors)), raw |-> raw]
             IN Fields(FoldLines(Split(cap.val, NL), NoRaw, SharedMetaLine))
  IN Block(SharedMetaCapture(text))

(***************************************************************************)
(* Specification of the two annotation readers on the same text            *)
(***************************************************************************)
MaxMetaLines == 2
MetaHeaders == {<<"#"," ","-","-","-","m","e","t","a">>, <<"/","/"," ","-","-","-","m","e","t","a">>}
MetaClosers == {<<"#"," ","-","-","-">>, <<"/","/"," ","-","-","-">>, <<"#"," ","e","n","d">>}
MetaLinePool == {
  <<"#"," ","d","e","p","s",":"," ","[","a",","," ","b","]">>,
  <<"#"," ","d","e","p","s",":"," ","a",","," ","b">>,
  <<"#"," ","i","n",":"," ","x">>,
  <<"#"," ","o","u","t",":"," ","[","x","]">>,
  <<"#"," ","m","e","t","h","o","d","s",":"," ","[","f",",","g","]">>,
  <<"#"," ","e","r","r","o","r","s",":"," ","E">>,
  <<"#"," ","n","a","m","e",":"," ","N">>,
  <<"/","/"," ","i","n",":"," ","[","x",","," ","y","]">>,
  <<"i","n",":"," ","z">> }
MetaTexts ==
  {Join(<<h>> \o body \o <<c>>, NL) :
     h \in MetaHeaders, c \in MetaClosers,
     body \in UNION {[1..n -> MetaLinePool] : n \in 0..MaxMetaLines}}
InitMeta ==
  /\ code \in MetaTexts
  /\ stats = [py |-> Undefined, shared |-> Undefined]
  /\ pc = "ready"
  /\ lang = Idle /\ fsys = Idle /\ lastStats = Idle /\ heap = Idle /\ reqs = Idle
  /\ provider = Idle /\ delivered = Idle
\* parsePythonCode: const meta = parseMetaBlock(code)
ReadMetaPython ==
  /\ ~stats.py.def
  /\ stats' = [stats EXCEPT !.py = Some(parseMetaBlockPy(code))]
  /\ UNCHANGED <<lang, code, pc, fsys, lastStats, heap, reqs, provider, delivered>>
\* parseJsCode, parsePhpCode, parseHtmlCode, parseCssCode: const meta = parseMetaBlock(code)
ReadMetaShared ==
  /\ ~stats.shared.def
  /\ stats' = [stats EXCEPT !.shared = Some(parseMetaBlock(code))]
  /\ UNCHANGED <<lang, code, pc, fsys, lastStats, heap, reqs, provider, delivered>>
NextMeta == ReadMetaPython \/ ReadMetaShared
SpecMeta == InitMeta /\ [][NextMeta]_vars

(***************************************************************************)
(* Claims about the annotation readers                                     *)
(***************************************************************************)
ListFields == [inputs |-> KeyIn, outputs |-> KeyOut, deps |-> KeyDeps, methods |-> KeyMethods,
               errors |-> KeyErrors]
Bracketed(v) == Len(v) >= 2 /\ v[1] = "[" /\ v[Len(v)] = "]"
\* the list the annotation format gives the value v
ListOfValue(v) == IF Bracketed(v) THEN TrimmedItems(SubSeq(v, 2, Len(v) - 1)) ELSE <<v>>
FollowsFormat(meta) ==
  \A f \in DOMAIN ListFields :
    ListFields[f] \in DOMAIN meta.raw =>
      /\ meta[f].def
      /\ meta[f].val = ListOfValue(meta.raw[ListFields[f]])
\* C20: for the list-typed keys (in, out, deps, methods, errors) a value wrapped in [...]
\* is read as its comma-separated items, trimmed, and a value without brackets as a list of
\* exactly one item, the whole value; the Python reader and the shared reader give the same
\* lists for the same block.
C20_ListValuesReadAlike ==
  (stats.py.def /\ stats.shared.def /\ ~stats.py.val.isNull /\ ~stats.shared.val.isNull) =>
    /\ FollowsFormat(stats.py.val)
    /\ FollowsFormat(stats.shared.val)
    /\ \A f \in DOMAIN ListFields :
         (ListFields[f] \in DOMAIN stats.py.val.raw \cap DOMAIN stats.shared.val.raw
            /\ stats.py.val.raw[ListFields[f]] = stats.shared.val.raw[ListFields[f]])
           => stats.py.val[f] = stats.shared.val[f]

(***************************************************************************)
(* Marker comments (scanTodos of analyzers.ts) and debug points            *)
(***************************************************************************)
TodoWords == [TODO |-> <<"t","o","d","o">>, FIXME |-> <<"f","i","x","m","e">>,
              HACK |-> <<"h","a","c","k">>, BUG |-> <<"b","u","g">>,
              NOTE |-> <<"n","o","t","e">>, XXX |-> <<"x","x","x">>]
NoDescription == <<"(","s","i","n"," ","d","e","s","c","r","i","p","c","i","o","n",")">>
KwCommentEnd == <<"*","/">>
KwHtmlCommentEnd == <<"-","-",">">>
TodoItem(text, type, n) == [text |-> text, type |-> type, lineNumber |-> n]
\* /\b(TODO|FIXME|HACK|BUG|NOTE|XXX)\b[:\s]*(.*)/i at p: the marker that matches there
TodoAt(l, p) ==
  {t \in DOMAIN TodoWords :
     /\ At(LowerStr(l), p, TodoWords[t])
     /\ IsW(l, p - 1) # IsW(l, p)
     /\ IsW(l, p + Len(TodoWords[t]) - 1) # IsW(l, p + Len(TodoWords[t]))}
\* m[2].trim().replace(/\*\/\s*$/, '').replace(/-->$/, '').trim() || '(sin descripcion)'
TodoText(rest) ==
  LET t == Trim(rest)
      a == IF EndsWith(t, KwCommentEnd) THEN SubSeq(t, 1, Len(t) - 2) ELSE t
      b == Trim(IF EndsWith(a, KwHtmlCommentEnd) THEN SubSeq(a, 1, Len(a) - 3) ELSE a)
  IN IF b = <<>> THEN NoDescription ELSE b
\* the loop body of scanTodos where the index is pushed without the + 1
TodoOfLineZeroBased(l, i) ==
  LET P == {p \in 1..Len(l) : TodoAt(l, p) # {}} IN
  IF P = {} THEN <<>>
  ELSE LET p0 == Min(P)
           t == CHOOSE x \in TodoAt(l, p0) : TRUE
           a == Run(l, p0 + Len(TodoWords[t]), WsCh \cup {":"})
       IN <<TodoItem(TodoText(SubSeq(l, a, Len(l))), IF t = "XXX" THEN "HACK" ELSE t, i - 1)>>
\* the loop body of scanTodos for the line l, the i-th of the file
TodoOfLine(l, i) ==
  LET P == {p \in 1..Len(l) : TodoAt(l, p) # {}} IN
  IF P = {} THEN <<>>
  ELSE LET p0 == Min(P)
           t == CHOOSE x \in TodoAt(l, p0) : TRUE
           a == Run(l, p0 + Len(TodoWords[t]), WsCh \cup {":"})
       IN <<TodoItem(TodoText(SubSeq(l, a, Len(l))), IF t = "XXX" THEN "HACK" ELSE t, i)>>
scanTodos(lines) == Flatten([i \in 1..Len(lines) |-> TodoOfLine(lines[i], i)])

KwTryColon == <<"t","r","y",":">>
KwExceptSp == <<"e","x","c","e","p","t"," ">>
KwExceptColon == <<"e","x","c","e","p","t",":">>
KwTry == <<"t","r","y">>
KwCatch == <<"c","a","t","c","h">>
KwBraceCatch == <<"}"," ","c","a","t","c","h">>
\* pythonParser.ts parseDebugPoints
parseDebugPoints(lines) ==
  SelectIdx(Len(lines), LAMBDA i :
    \E w \in {KwTryColon, KwExceptSp, KwExceptColon} : StartsWith(Trim(lines[i]), w))
\* jsParser.ts parseJsDebug
parseJsDebug(lines) ==
  SelectIdx(Len(lines), LAMBDA i :
    \E w \in {KwTry, KwCatch, KwBraceCatch} : StartsWith(Trim(lines[i]), w))
\* phpParser.ts parsePhpDebug: startsWith('try'), /catch\s*\(/ or /}\s*catch/
parsePhpDebug(lines) ==
  SelectIdx(Len(lines), LAMBDA i :
    LET t == Trim(lines[i]) IN
    \/ StartsWith(t, KwTry)
    \/ \E p \in 1..Len(t) : At(t, p, KwCatch) /\ At(t, Run(t, p + 5, WsCh), <<"(">>)
    \/ \E p \in 1..Len(t) : t[p] = "}" /\ At(t, Run(t, p + 1, WsCh), KwCatch))

(***************************************************************************)
(* phpParser.ts (src/unnamed/part_001): imports, classes, methods,         *)
(* functions                                                               *)
(***************************************************************************)
KwUse == <<"u","s","e">>
KwPhpLoaders == {<<"r","e","q","u","i","r","e">>, <<"i","n","c","l","u","d","e">>,
                 <<"r","e","q","u","i","r","e","_","o","n","c","e">>,
                 <<"i","n","c","l","u","d","e","_","o","n","c","e">>}
KwAbstract == <<"a","b","s","t","r","a","c","t">>
KwFinal == <<"f","i","n","a","l">>
KwStatic == <<"s","t","a","t","i","c">>
KwVisibility == {<<"p","u","b","l","i","c">>, <<"p","r","i","v","a","t","e">>,
                 <<"p","r","o","t","e","c","t","e","d">>}
KwHidden == {<<"p","r","i","v","a","t","e">>, <<"p","r","o","t","e","c","t","e","d">>}
\* l.match(/^use\s+([\w\\]+)(?:\s+as\s+(\w+))?\s*;/): [ok, module, name]
PhpUseMatch(l) ==
  LET a == Run(l, 4, WsCh)
      n == Run(l, a, WordCh \cup {BS})
      b == Run(l, n, WsCh)
      c == Run(l, b + 2, WsCh)
      d == Run(l, c, WordCh)
      alias == b > n /\ At(l, b, KwAs) /\ c > b + 2 /\ d > c /\ Ch(l, Run(l, d, WsCh)) = ";"
      ok == StartsWith(l, KwUse) /\ a > 4 /\ n > a /\ (alias \/ Ch(l, b) = ";")
      parts == Split(SubSeq(l, a, n - 1), BS)
  IN [ok |-> ok, module |-> IF ok THEN SubSeq(l, a, n - 1) ELSE <<>>,
      name |-> IF ~ok THEN <<>>
               ELSE IF alias THEN SubSeq(l, c, d - 1) ELSE parts[Len(parts)]]
\* l.match(/^(?:require|include|require_once|include_once)\s*\(?['"]([^'"]+)['"]\)?/): [ok, module]
PhpLoaderMatch(l) ==
  LET Quoted(p) ==
        LET a == Run(l, p, WsCh)
            q == IF Ch(l, a) = "(" THEN a + 1 ELSE a
            e == Run(l, q + 1, Not(QuotePy))
        IN [ok |-> Ch(l, q) \in QuotePy /\ e > q + 1 /\ Ch(l, e) \in QuotePy,
            module |-> SubSeq(l, q + 1, e - 1)]
      K == {k \in KwPhpLoaders : StartsWith(l, k) /\ Quoted(Len(k) + 1).ok}
  IN [ok |-> K # {},
      module |-> IF K = {} THEN <<>> ELSE Quoted(Len(CHOOSE k \in K : TRUE) + 1).module]
\* one iteration of the loop of parsePhpImports
PhpImportsOfLine(line, i) ==
  LET First(u, r) ==
        IF u.ok THEN <<ImportInfo(u.module, <<u.name>>, TRUE, i)>>
        ELSE IF r.ok THEN <<ImportInfo(r.module, <<r.module>>, FALSE, i)>>
        ELSE <<>>
  IN First(PhpUseMatch(Trim(line)), PhpLoaderMatch(Trim(line)))
parsePhpImports(lines) == Flatten([i \in 1..Len(lines) |-> PhpImportsOfLine(lines[i], i)])
\* function\s+(\w+)\s*\(([^)]*)\) at p: [ok, name]
PhpFunctionHead(l, p) ==
  LET c == Run(l, p + 8, WsCh)
      n == Run(l, c, WordCh)
      g == Run(l, n, WsCh)
      e == Run(l, g + 1, Not({")"}))
      ok == At(l, p, KwFunction) /\ c > p + 8 /\ n > c /\ Ch(l, g) = "(" /\ Ch(l, e) = ")"
  IN [ok |-> ok, name |-> IF ok THEN SubSeq(l, c, n - 1) ELSE <<>>]
\* l.match(/^\s+(?:(public|private|protected)\s+)?(?:(static)\s+)?function\s+(\w+)\s*\(([^)]*)\).../):
\* [ok, name, hidden]
PhpMethodMatch(l) ==
  LET s0 == Run(l, 1, WsCh)
      V == {v \in KwVisibility : OptKw(l, s0, v) > s0}
      a == IF V = {} THEN s0 ELSE OptKw(l, s0, CHOOSE v \in V : TRUE)
      b == OptKw(l, a, KwStatic)
      Match(h) == [ok |-> s0 > 1 /\ h.ok, name |-> h.name, hidden |-> V \cap KwHidden # {}]
  IN Match(PhpFunctionHead(l, b))
countPhpBranches(lines, start) ==
  Cardinality({i \in start..(BraceSpanEnd(lines, start) - 1) :
                 StartsWithKw(Trim(lines[i]), {<<"i","f">>, <<"e","l","s","e","i","f">>,
                    <<"e","l","s","e">>, <<"f","o","r">>, <<"f","o","r","e","a","c","h">>,
                    <<"w","h","i","l","e">>, <<"s","w","i","t","c","h">>, <<"c","a","s","e">>})})
parsePhpClassMethods(lines, classLine) ==
  LET Found(m) ==          \* m[i]: the match of line i against the method pattern
        LET I == SelectIdx(Len(lines), LAMBDA i :
                   i >= classLine /\ i < BraceSpanEnd(lines, classLine) /\ m[i].ok)
        IN [k \in 1..Len(I) |->
              [name |-> m[I[k]].name, lineNumber |-> I[k], isAsync |-> FALSE,
               isPrivate |-> m[I[k]].hidden, complexity |-> countPhpBranches(lines, I[k])]]
  IN Found([i \in 1..Len(lines) |-> PhpMethodMatch(lines[i])])
\* l.match(/^(?:abstract\s+|final\s+)?class\s+(\w+).../): [ok, name]
PhpClassMatch(l) ==
  LET a == IF OptKw(l, 1, KwAbstract) > 1 THEN OptKw(l, 1, KwAbstract) ELSE OptKw(l, 1, KwFinal)
      b == Run(l, a + 5, WsCh)
      n == Run(l, b, WordCh)
      ok == At(l, a, KwClass) /\ b > a + 5 /\ n > b
  IN [ok |-> ok, name |-> IF ok THEN SubSeq(l, b, n - 1) ELSE <<>>]
parsePhpClasses(lines) ==
  LET Found(m) ==          \* m[i]: the match of line i against the class pattern
        LET I == SelectIdx(Len(lines), LAMBDA i : m[i].ok) IN
        [k \in 1..Len(I) |-> ClassInfo(m[I[k]].name, parsePhpClassMethods(lines, I[k]), I[k])]
  IN Found([i \in 1..Len(lines) |-> PhpClassMatch(lines[i])])
\* the loop of parsePhpFunctions: lines indented by more than two are skipped
parsePhpFunctions(lines) ==
  LET Found(m) ==          \* m[i]: the match of line i against the function pattern at column 0
        LET I == SelectIdx(Len(lines), LAMBDA i : FirstNonWs(lines[i]) <= 2 /\ m[i].ok)
        IN [k \in 1..Len(I) |-> MethodInfo(m[I[k]].name, I[k], FALSE)]
  IN Found([i \in 1..Len(lines) |-> PhpFunctionHead(lines[i], 1)])

(***************************************************************************)
(* htmlParser.ts (src/src/extension.ts): imports, components, inline       *)
(* script functions, selectors, hardcoded values                           *)
(***************************************************************************)
KwScriptOpen == <<"<","s","c","r","i","p","t">>
KwScriptClose == <<"<","/","s","c","r","i","p","t",">">>
KwSrcEq == <<"s","r","c","=">>
KwLinkOpen == <<"<","l","i","n","k">>
KwHrefEq == <<"h","r","e","f","=">>
KwAtImport == <<"@","i","m","p","o","r","t">>
KwUrlOpen == <<"u","r","l","(">>
KwStylesheet == <<"s","t","y","l","e","s","h","e","e","t">>
KwDotCss == <<".","c","s","s">>
KwScript == <<"s","c","r","i","p","t">>
KwCss == <<"c","s","s">>
MajorTags == {<<"h","e","a","d","e","r">>, <<"n","a","v">>, <<"m","a","i","n">>,
              <<"s","e","c","t","i","o","n">>, <<"a","r","t","i","c","l","e">>,
              <<"a","s","i","d","e">>, <<"f","o","o","t","e","r">>, <<"f","o","r","m">>,
              <<"t","a","b","l","e">>, <<"d","i","v">>}
UrlAttrs == {<<"h","r","e","f">>, <<"s","r","c">>, <<"a","c","t","i","o","n">>}
SelectorCh == WordCh \cup {"-", ":", "[", "]", "=", "*", ">", "~", "+", ",", " ", ".", "#"}
\* ["']([^"']+)["'] at q: [ok, value, end]
QuotedValue(l, q) ==
  LET e == Run(l, q + 1, Not(QuotePy))
      ok == Ch(l, q) \in QuotePy /\ e > q + 1 /\ Ch(l, e) \in QuotePy
  IN [ok |-> ok, value |-> IF ok THEN SubSeq(l, q + 1, e - 1) ELSE <<>>,
      end |-> IF ok THEN e ELSE q]
\* /<tag[^>]+attr=["']([^"']+)["']/ (and, for closed, a following [^>]*>): the first tag that
\* matches and, inside it, the last attr= that does
TagAttr(l, tag, attr, closed) ==
  LET S(p) == {s \in (p + Len(tag) + 1)..Run(l, p + Len(tag), Not({">"})) :
                 /\ At(l, s, attr) /\ QuotedValue(l, s + Len(attr)).ok
                 /\ closed => Ch(l, Run(l, QuotedValue(l, s + Len(attr)).end + 1, Not({">"}))) = ">"}
      P == {p \in 1..Len(l) : At(l, p, tag) /\ S(p) # {}}
  IN [ok |-> P # {},
      value |-> IF P = {} THEN <<>> ELSE QuotedValue(l, Max(S(Min(P))) + Len(attr)).value]
\* /@import\s+(?:url\()?['"]([^'"]+)['"]/: [ok, value]
CssImportMatch(l) ==
  LET Q(p) == LET a == Run(l, p + 7, WsCh)
                  q == IF At(l, a, KwUrlOpen) /\ QuotedValue(l, a + 4).ok THEN a + 4 ELSE a
                  ok == At(l, p, KwAtImport) /\ a > p + 7 /\ QuotedValue(l, q).ok
              IN [ok |-> ok, value |-> IF ok THEN QuotedValue(l, q).value ELSE <<>>]
      P == {p \in 1..Len(l) : Q(p).ok}
  IN [ok |-> P # {}, value |-> IF P = {} THEN <<>> ELSE Q(Min(P)).value]
\* one iteration of the loop of parseHtmlImports
HtmlImportsOfLine(l, i) ==
  LET Pushed(scr, lnk, imp) ==
        (IF scr.ok THEN <<ImportInfo(scr.value, <<KwScript>>, TRUE, i)>> ELSE <<>>)
        \o (IF lnk.ok /\ (Includes(l, KwStylesheet) \/ EndsWith(lnk.value, KwDotCss))
              THEN <<ImportInfo(lnk.value, <<KwStylesheet>>, TRUE, i)>> ELSE <<>>)
        \o (IF imp.ok THEN <<ImportInfo(imp.value, <<KwCss>>, TRUE, i)>> ELSE <<>>)
  IN Pushed(TagAttr(l, KwScriptOpen, KwSrcEq, FALSE), TagAttr(l, KwLinkOpen, KwHrefEq, TRUE),
            CssImportMatch(l))
parseHtmlImports(lines) == Flatten([i \in 1..Len(lines) |-> HtmlImportsOfLine(lines[i], i)])
parseCssImports(lines) ==
  LET Found(m) ==
        LET I == SelectIdx(Len(lines), LAMBDA i : m[i].ok) IN
        [k \in 1..Len(I) |-> ImportInfo(m[I[k]].value, <<KwCss>>, TRUE, I[k])]
  IN Found([i \in 1..Len(lines) |-> CssImportMatch(lines[i])])
\* parseHtmlAttrs: the matches of /(\w[\w-]*)=["']([^"']*?)["']/g from position from
RECURSIVE parseHtmlAttrs(_, _)
parseHtmlAttrs(s, from) ==
  LET M(p) == LET n == Run(s, p + 1, WordCh \cup {"-"})
                  e == Run(s, n + 2, Not(QuotePy))
                  ok == IsW(s, p) /\ Ch(s, n) = "=" /\ Ch(s, n + 1) \in QuotePy
                          /\ Ch(s, e) \in QuotePy
              IN [ok |-> ok, name |-> IF ok THEN SubSeq(s, p, n - 1) ELSE <<>>,
                  type |-> IF ok THEN SubSeq(s, n + 2, e - 1) ELSE <<>>,
                  end |-> IF ok THEN e ELSE p]
      P == {p \in from..Len(s) : M(p).ok}
  IN IF P = {} THEN <<>>
     ELSE <<[name |-> M(Min(P)).name, type |-> M(Min(P)).type]>>
          \o parseHtmlAttrs(s, M(Min(P)).end + 1)
\* /^<(header|nav|...|div)\b([^>]*?)>?\s*$/i on the trimmed line: [ok, tag, attrs]
HtmlComponentMatch(t) ==
  LET T == {g \in MajorTags : At(LowerStr(t), 2, g) /\ ~IsW(t, Len(g) + 2)}
      g0 == IF T = {} THEN <<>> ELSE CHOOSE g \in T : TRUE
      r == Run(t, Len(g0) + 2, Not({">"}))
      ok == Ch(t, 1) = "<" /\ T # {} /\ (r > Len(t) \/ r = Len(t))
  IN [ok |-> ok, tag |-> g0,
      attrs |-> IF ok THEN parseHtmlAttrs(SubSeq(t, Len(g0) + 2, r - 1), 1) ELSE <<>>]
\* the name of a component: tag#id, tag.first-class, or the tag
ComponentName(tag, attrs) ==
  LET Ids == {k \in 1..Len(attrs) : attrs[k].name = <<"i","d">>}
      Cls == {k \in 1..Len(attrs) : attrs[k].name = <<"c","l","a","s","s">>}
  IN IF Ids # {} THEN tag \o <<"#">> \o attrs[Min(Ids)].type
     ELSE IF Cls # {} THEN tag \o <<".">> \o Split(attrs[Min(Cls)].type, " ")[1]
     ELSE tag
parseHtmlComponents(lines) ==
  LET Found(m) ==          \* m[i]: the match of line i against the tag pattern
        LET I == SelectIdx(Len(lines), LAMBDA i : m[i].ok) IN
        [k \in 1..Len(I) |-> ClassInfo(ComponentName(m[I[k]].tag, m[I[k]].attrs), <<>>, I[k])]
  IN Found([i \in 1..Len(lines) |-> HtmlComponentMatch(Trim(lines[i]))])
\* whether the loop of parseInlineScriptFunctions looks at line i: inside a <script> without
\* src, and not on a line that holds </script>
RECURSIVE InScript(_, _)
InScript(lines, i) ==
  IF i = 0 THEN FALSE
  ELSE LET t == Trim(lines[i]) IN
       IF Includes(t, KwScriptClose) THEN FALSE
       ELSE IF Includes(t, KwScriptOpen) /\ ~Includes(t, KwSrcEq) THEN TRUE
       ELSE InScript(lines, i - 1)
\* /(?:async\s+)?function\s+(\w+)\s*\(([^)]*)\)/ anywhere in the line: [ok, name]
InlineFunction(t) ==
  LET P == {p \in 1..Len(t) : PhpFunctionHead(t, p).ok} IN
  [ok |-> P # {}, name |-> IF P = {} THEN <<>> ELSE PhpFunctionHead(t, Min(P)).name]
\* /(?:const|let|var)\s+(\w+)\s*=\s*(?:async\s+)?\(/ anywhere in the line: [ok, name]
InlineArrow(t) ==
  LET M(p) == LET K == {k \in KwDeclare : At(t, p, k)}
                  k0 == IF K = {} THEN 0 ELSE Len(CHOOSE k \in K : TRUE)
                  a == Run(t, p + k0, WsCh)
                  n == Run(t, a, WordCh)
                  e == Run(t, n, WsCh)
                  f == Run(t, e + 1, WsCh)
                  ok == K # {} /\ a > p + k0 /\ n > a /\ Ch(t, e) = "="
                          /\ Ch(t, OptKw(t, f, KwAsync)) = "("
              IN [ok |-> ok, name |-> IF ok THEN SubSeq(t, a, n - 1) ELSE <<>>]
      P == {p \in 1..Len(t) : M(p).ok}
  IN [ok |-> P # {}, name |-> IF P = {} THEN <<>> ELSE M(Min(P)).name]
\* one iteration of the loop of parseInlineScriptFunctions on a line inside a script
InlineFunctionsOfLine(t, i) ==
  LET Pushed(f, f2) ==
        (IF f.ok THEN <<[name |-> f.name, lineNumber |-> i, isAsync |-> Includes(t, KwAsync),
                         isPrivate |-> FALSE]>> ELSE <<>>)
        \o (IF f2.ok THEN <<[name |-> f2.name, lineNumber |-> i, isAsync |-> Includes(t, KwAsync),
                             isPrivate |-> FALSE]>> ELSE <<>>)
  IN Pushed(InlineFunction(t), InlineArrow(t))
\* parseInlineScriptFunctions without the inScript test: every line is searched
parseInlineScriptFunctionsAnywhere(lines) ==
  Flatten([i \in 1..Len(lines) |-> InlineFunctionsOfLine(Trim(lines[i]), i)])
parseInlineScriptFunctions(lines) ==
  Flatten([i \in 1..Len(lines) |->
             IF InScript(lines, i) THEN InlineFunctionsOfLine(Trim(lines[i]), i) ELSE <<>>])
\* /^([.#@]?[\w\-:[\]=*>~+, .#]+)\s*\{/ on the trimmed line, which must not start a comment
CssSelectorMatch(t) ==
  LET o == IF Ch(t, 1) = "@" THEN 2 ELSE 1
      r == Run(t, o, SelectorCh)
      ok == r > o /\ Ch(t, Run(t, r, WsCh)) = "{" /\ ~StartsWith(t, <<"/", "*">>)
  IN [ok |-> ok, name |-> IF ok THEN Trim(SubSeq(t, 1, r - 1)) ELSE <<>>]
parseCssSelectors(lines) ==
  LET Found(m) ==          \* m[i]: the match of line i against the selector pattern
        LET I == SelectIdx(Len(lines), LAMBDA i : m[i].ok) IN
        [k \in 1..Len(I) |-> ClassInfo(m[I[k]].name, <<>>, I[k])]
  IN Found([i \in 1..Len(lines) |-> CssSelectorMatch(Trim(lines[i]))])
\* /(?:href|src|action)=["'](https?:\/\/[^"']+)["']/: [ok, value, context]
HtmlUrlMatch(l) ==
  LET M(p) == LET A == {a \in UrlAttrs : At(l, p, a)}
                  a0 == IF A = {} THEN <<>> ELSE CHOOSE a \in A : TRUE
                  q == p + Len(a0) + 1
                  h == IF At(l, q + 1, KwHttp \o <<"s">>) THEN q + 6 ELSE q + 5
              IN [ok |-> /\ A # {} /\ Ch(l, q - 1) = "=" /\ QuotedValue(l, q).ok
                         /\ At(l, q + 1, KwHttp) /\ At(l, h, <<":", "/", "/">>)
                         /\ QuotedValue(l, q).end > h + 3,
                  value |-> QuotedValue(l, q).value, context |-> a0]
      P == {p \in 1..Len(l) : M(p).ok}
  IN IF P = {} THEN [ok |-> FALSE, value |-> <<>>, context |-> <<>>] ELSE M(Min(P))
\* one iteration of the loop of detectHtmlHardcoded
HtmlHardcodedLine(l, i) ==
  LET Pushed(url, ip) ==
        (IF url.ok THEN <<Finding(url.value, "url", i, url.context)>> ELSE <<>>)
        \o (IF ip # <<>> /\ ~url.ok THEN <<Finding(ip, "ip", i, <<"i","n","l","i","n","e">>)>>
            ELSE <<>>)
  IN Pushed(HtmlUrlMatch(l), MatchText(l, LAMBDA P : IpEnds(l, P)))
detectHtmlHardcoded(lines) == Flatten([i \in 1..Len(lines) |-> HtmlHardcodedLine(lines[i], i)])

(***************************************************************************)
(* The RegExp constructor, and the patterns the unused scans build from    *)
(* extracted names                                                         *)
(***************************************************************************)
RegexSpecial == {".", "*", "+", "?", "^", "$", "{", "}", "(", ")", "|", "[", "]", BS}
\* an escape that leaves the name as it is
escapeRegexNone(s) == s
\* s.replace(/[.*+?^${}()|[\]\\]/g, '\\$&')
escapeRegex(s) == Flatten([i \in 1..Len(s) |-> IF s[i] \in RegexSpecial THEN <<BS, s[i]>> ELSE <<s[i]>>])
\* the position of the ] that closes a character class whose body starts at p, or past the end
RECURSIVE ClassEnd(_, _)
ClassEnd(src, p) ==
  IF p > Len(src) THEN Len(src) + 1
  ELSE IF src[p] = BS THEN ClassEnd(src, p + 2)
  ELSE IF src[p] = "]" THEN p
  ELSE ClassEnd(src, p + 1)
\* the position after a braced quantifier {n} {n,} {n,m} that starts at p, or 0
BracedEnd(src, p) ==
  LET a == Run(src, p + 1, DigitCh)
      b == IF Ch(src, a) = "," THEN Run(src, a + 1, DigitCh) ELSE a
  IN IF Ch(src, p) = "{" /\ a > p + 1 /\ Ch(src, b) = "}" THEN b + 1 ELSE 0
\* the syntax check of new RegExp(src) from position p on: depth open groups, and what precedes
\* p (nothing, an atom, an assertion, a quantified atom, a lazily quantified atom)
RECURSIVE RegExpScan(_, _, _, _)
RegExpScan(src, p, depth, prev) ==
  IF p > Len(src) THEN depth = 0
  ELSE IF src[p] = BS
    THEN p < Len(src)
         /\ RegExpScan(src, p + 2, depth, IF src[p + 1] \in {"b", "B"} THEN "assertion" ELSE "atom")
  ELSE IF src[p] = "["
    THEN ClassEnd(src, p + 1) <= Len(src) /\ RegExpScan(src, ClassEnd(src, p + 1) + 1, depth, "atom")
  ELSE IF src[p] = "("
    THEN IF Ch(src, p + 1) = "?"
           THEN Ch(src, p + 2) \in {":", "=", "!"} /\ RegExpScan(src, p + 3, depth + 1, "nothing")
           ELSE RegExpScan(src, p + 1, depth + 1, "nothing")
  ELSE IF src[p] = ")" THEN depth > 0 /\ RegExpScan(src, p + 1, depth - 1, "atom")
  ELSE IF src[p] \in {"*", "+"} THEN prev = "atom" /\ RegExpScan(src, p + 1, depth, "quantified")
  ELSE IF src[p] = "?"
    THEN prev \in {"atom", "quantified"}
         /\ RegExpScan(src, p + 1, depth, IF prev = "atom" THEN "quantified" ELSE "lazy")
  ELSE IF BracedEnd(src, p) > 0
    THEN prev = "atom" /\ RegExpScan(src, BracedEnd(src, p), depth, "quantified")
  ELSE IF src[p] = "|" THEN RegExpScan(src, p + 1, depth, "nothing")
  ELSE IF src[p] \in {"^", "$"} THEN RegExpScan(src, p + 1, depth, "assertion")
  ELSE RegExpScan(src, p + 1, depth, "atom")
\* whether new RegExp(src) returns a pattern rather than raising a SyntaxError
RegExpCompiles(src) == RegExpScan(src, 1, 0, "nothing")
\* '\\b' + escapeRegex(name) + '\\b'
WordPattern(name) == <<BS, "b">> \o escapeRegex(name) \o <<BS, "b">>
\* '(?:self\\.|\\b)' + escapeRegex(name) + '\\s*\\('
PyCallPattern(name) ==
  <<"(", "?", ":", "s", "e", "l", "f", BS, ".", "|", BS, "b", ")">> \o escapeRegex(name)
  \o <<BS, "s", "*", BS, "(">>
\* '(?:self\\.|this\\.|\\$this->|\\b)' + escRe(name) + '\\s*\\('
SharedCallPattern(name) ==
  <<"(", "?", ":", "s", "e", "l", "f", BS, ".", "|", "t", "h", "i", "s", BS, ".", "|",
    BS, "$", "t", "h", "i", "s", "-", ">", "|", BS, "b", ")">> \o escapeRegex(name)
  \o <<BS, "s", "*", BS, "(">>
\* whether a new RegExp in the two loops of an unused scan raises: the import names that reach
\* the constructor, then callRe and refRe of every entry of allMethods
UnusedScanRaises(imports, allMethods, Skip(_, _), CallPattern(_)) ==
  \/ \E k \in 1..Len(imports) : \E j \in 1..Len(imports[k].names) :
       LET name == imports[k].names[j] IN
       /\ ~(name = <<"*">> \/ Len(name) <= 1)
       /\ ~Skip(imports[k], name)
       /\ ~RegExpCompiles(WordPattern(name))
  \/ \E k \in 1..Len(allMethods) :
       \/ ~RegExpCompiles(CallPattern(allMethods[k].name))
       \/ ~RegExpCompiles(WordPattern(allMethods[k].name))
detectUnusedCodeRaises(imports, classes, functions) ==
  UnusedScanRaises(imports,
       functions \o ClassMethodsKept(classes,
                      LAMBDA m : m.name # KwInit /\ ~StartsWith(m.name, KwDunder)),
       PySkipImport, PyCallPattern)
detectUnusedRaises(imports, classes, functions) ==
  UnusedScanRaises(imports,
       functions \o ClassMethodsKept(classes,
                      LAMBDA m : /\ m.name # KwInit /\ m.name # KwConstructor
                                 /\ m.name # KwConstruct /\ ~StartsWith(m.name, KwDunder)),
       SharedSkipImport, SharedCallPattern)

(***************************************************************************)
(* The five extractors and languageRouter.ts (src/src/types.ts)            *)
(***************************************************************************)
langMap == [l \in {"python", "javascript", "typescript", "javascriptreact", "typescriptreact",
                   "php", "html", "css"} |-> l]
isSupported(languageId) == languageId \in DOMAIN langMap
CommentPrefixJs == <<"/", "/">>
\* the summary an extractor returns, without the texts derived from its lists (globalVars,
\* connections, errorTypes, warnings, description, classDescriptions)
FileStats(fileName, language, meta, imports, classes, functions, debugPoints, lines, codeLines,
          hardcoded, unused) ==
  [fileName |-> fileName, language |-> language, meta |-> meta, imports |-> imports,
   classes |-> classes, functions |-> functions, debugPoints |-> debugPoints,
   totalLines |-> Len(lines), codeLines |-> codeLines, hardcoded |-> hardcoded,
   unused |-> unused, diagnostics |-> <<>>, depIssues |-> <<>>, todos |-> <<>>,
   externalUsage |-> <<>>]
parsePythonCode(text, fileName) ==
  LET lines == LinesOf(text)
      Summary(imports, classes, functions) ==
        FileStats(fileName, "python", parseMetaBlockPy(text), imports, classes, functions,
                  parseDebugPoints(lines), lines, countCodeLines(lines),
                  detectHardcodedValues(lines),
                  detectUnusedCode(lines, imports, classes, functions))
  IN Summary(parseImports(lines), parseClasses(lines), parseTopLevelFunctions(lines))
parseJsCode(text, fileName) ==
  LET lines == LinesOf(text)
      Summary(imports, classes, functions) ==
        FileStats(fileName, "javascript", parseMetaBlock(text), imports, classes, functions,
                  parseJsDebug(lines), lines, countJsCodeLines(lines),
                  detectHardcoded(lines, CommentPrefixJs),
                  detectUnused(lines, imports, classes, functions))
  IN Summary(parseJsImports(lines), parseJsClasses(lines), parseJsFunctions(lines))
parsePhpCode(text, fileName) ==
  LET lines == LinesOf(text)
      Summary(imports, classes, functions) ==
        FileStats(fileName, "php", parseMetaBlock(text), imports, classes, functions,
                  parsePhpDebug(lines), lines, countPhpCodeLines(lines),
                  detectHardcoded(lines, CommentPrefixJs),
                  detectUnused(lines, imports, classes, functions))
  IN Summary(parsePhpImports(lines), parsePhpClasses(lines), parsePhpFunctions(lines))
parseHtmlCode(text, fileName) ==
  LET lines == LinesOf(text) IN
  FileStats(fileName, "html", parseMetaBlock(text), parseHtmlImports(lines),
            parseHtmlComponents(lines), parseInlineScriptFunctions(lines), <<>>, lines,
            countHtmlCodeLines(lines), detectHtmlHardcoded(lines), <<>>)
parseCssCode(text, fileName) ==
  LET lines == LinesOf(text) IN
  FileStats(fileName, "css", parseMetaBlock(text), parseCssImports(lines),
            parseCssSelectors(lines), <<>>, <<>>, lines, countHtmlCodeLines(lines),
            detectHtmlHardcoded(lines), <<>>)
\* whether the extractor that parseCode selects raises instead of returning
parseCodeRaises(text, languageId) ==
  LET lines == LinesOf(text) IN
  CASE languageId \in JsTsLangs ->
         detectUnusedRaises(parseJsImports(lines), parseJsClasses(lines), parseJsFunctions(lines))
    [] languageId = "php" ->
         detectUnusedRaises(parsePhpImports(lines), parsePhpClasses(lines), parsePhpFunctions(lines))
    [] languageId \in {"html", "css"} -> FALSE
    [] OTHER ->
         detectUnusedCodeRaises(parseImports(lines), parseClasses(lines),
                                parseTopLevelFunctions(lines))
\* a router whose default branch is the JS extractor
parseCodeDefaultJs(text, fileName, languageId) ==
  LET Enriched(st) == [st EXCEPT !.todos = scanTodos(LinesOf(text))] IN
  Enriched(CASE languageId = "python" -> parsePythonCode(text, fileName)
             [] languageId = "php" -> parsePhpCode(text, fileName)
             [] languageId = "html" -> parseHtmlCode(text, fileName)
             [] languageId = "css" -> parseCssCode(text, fileName)
             [] OTHER -> parseJsCode(text, fileName))
\* parseCode: the switch on languageId, then stats.todos = scanTodos(lines)
parseCode(text, fileName, languageId) ==
  LET Enriched(st) == [st EXCEPT !.todos = scanTodos(LinesOf(text))] IN
  Enriched(CASE languageId = "python" -> parsePythonCode(text, fileName)
             [] languageId \in JsTsLangs -> parseJsCode(text, fileName)
             [] languageId = "php" -> parsePhpCode(text, fileName)
             [] languageId = "html" -> parseHtmlCode(text, fileName)
             [] languageId = "css" -> parseCssCode(text, fileName)
             [] OTHER -> parsePythonCode(text, fileName))

(***************************************************************************)
(* analyzeDoc and scanExternalUsage (src/src/extension.ts)                  *)
(***************************************************************************)
\* scanExternalUsage: the public names to search for, in the order they are collected
PublicNames(st) ==
  [k \in 1..Len(st.classes) |-> [name |-> st.classes[k].name, kind |-> "class"]]
  \o Flatten([k \in 1..Len(st.classes) |->
       LET ms == FilterSeq(st.classes[k].methods, LAMBDA m : ~StartsWith(m.name, <<"_">>)) IN
       [j \in 1..Len(ms) |-> [name |-> ms[j].name, kind |-> "method"]]])
  \o LET fs == FilterSeq(st.functions, LAMBDA f : ~StartsWith(f.name, <<"_">>)) IN
     [j \in 1..Len(fs) |-> [name |-> fs[j].name, kind |-> "function"]]
\* findFiles('**/*.{py,js,ts,jsx,tsx,php}'): the workspace files of those kinds, in path order
ScannedKinds == {<<".","p","y">>, <<".","j","s">>, <<".","t","s">>, <<".","j","s","x">>, <<".","t","s","x">>, <<".","p","h","p">>}
WorkspaceOrder == <<<<<<"w">>, <<"a",".","p","y">>>>, <<<<"w">>, <<"b",".","j","s">>>>, <<<<"w">>, <<"c",".","t","x","t">>>>, <<<<"w">>, <<"d",".","p","y">>>>,
                    <<<<"w">>, <<"u",".","p","y">>>>, <<<<"w">>, <<"v",".","j","s">>>>>>
findFiles ==
  FilterSeq(WorkspaceOrder, LAMBDA f : Exists(f) /\ \E e \in ScannedKinds : EndsWith(f[Len(f)], e))
\* vscode.workspace.fs.readFile(fileUri): the content, or a failure the inner catch swallows
readFile(f) ==
  [ok |-> f \notin fsys.unreadable, content |-> IF f \in fsys.unreadable THEN <<>> ELSE fsys.files[f]]
\* the loop over names inside one file: one step for the name item in the content read from f
ScanStep(results, f, content, item) ==
  LET I == {k \in 1..Len(results) : results[k].name = item.name} IN
  IF ~HasWord(content, item.name) THEN results
  ELSE IF I = {} THEN Append(results, [name |-> item.name, kind |-> item.kind, usedIn |-> <<f>>])
  ELSE [k \in 1..Len(results) |->
          IF k \in I /\ \A j \in 1..Len(results[k].usedIn) : results[k].usedIn[j] # f
            THEN [results[k] EXCEPT !.usedIn = Append(@, f)] ELSE results[k]]
\* the body of for (const fileUri of files): a failed read leaves results as they are
ScanFile(results, f, names) ==
  LET Body(r) ==
        LET F[j \in 0..Len(names)] ==
              IF j = 0 THEN results ELSE ScanStep(F[j - 1], f, r.content, names[j])
        IN IF r.ok THEN F[Len(names)] ELSE results
  IN Body(readFile(f))
\* a scan with one try around the whole loop: the first failed read ends it
scanExternalUsageOneTry(currentFile, st) ==
  LET names == PublicNames(st)
      files == FilterSeq(findFiles, LAMBDA f : f # currentFile)
      F[i \in 0..Len(files)] ==
        IF i = 0 THEN <<>>
        ELSE IF \E k \in 1..i : ~readFile(files[k]).ok THEN F[i - 1]
        ELSE ScanFile(F[i - 1], files[i], names)
  IN IF names = <<>> THEN <<>> ELSE F[Len(files)]
scanExternalUsage(currentFile, st) ==
  LET names == PublicNames(st)
      files == FilterSeq(findFiles, LAMBDA f : f # currentFile)
      F[i \in 0..Len(files)] == IF i = 0 THEN <<>> ELSE ScanFile(F[i - 1], files[i], names)
  IN IF names = <<>> THEN <<>> ELSE F[Len(files)]
\* a filter that compares the line of the item instead of its name
FilterUnusedByLine(unused, externalUsage) ==
  FilterSeq(unused, LAMBDA u : \A k \in 1..Len(externalUsage) : Len(externalUsage[k].name) # u.lineNumber)
\* lastStats.unused.filter(u => !externalNames.has(u.name))
FilterUnused(unused, externalUsage) ==
  FilterSeq(unused, LAMBDA u : \A k \in 1..Len(externalUsage) : externalUsage[k].name # u.name)

\* StatsViewProvider.updateStats where _render sets the html only the first time
updateStatsRenderOnce(p, g, s) ==
  [view |-> p.view, lastStats |-> g,
   html |-> IF p.view /\ p.lastStats = 0 THEN [shown |-> "summary", of |-> s] ELSE p.html]
\* StatsViewProvider.updateStats: this._lastStats = s; this._render()
updateStats(p, g, s) ==
  [view |-> p.view, lastStats |-> g,
   html |-> IF p.view THEN [shown |-> "summary", of |-> s] ELSE p.html]

(***************************************************************************)
(* Specification of overlapping analyzeDoc requests                        *)
(***************************************************************************)
MaxRequests == 3
Doc(path, languageId, text) == [fileName |-> path, languageId |-> languageId, text |-> text]
Docs == {
  Doc(<<<<"w">>, <<"a",".","p","y">>>>, "python", <<"d","e","f"," ","h","h","(","x",")",":"," ","r","e","t","u","r","n"," ","x","+","1">>),
  Doc(<<<<"w">>, <<"b",".","j","s">>>>, "javascript", <<"f","u","n","c","t","i","o","n"," ","g","g","(",")"," ","{","}">>),
  Doc(<<<<"w">>, <<"c",".","t","x","t">>>>, "plaintext", <<"h","h"," ","g","g">>),
  Doc(<<<<"w">>, <<"d",".","p","y">>>>, "python", <<"x"," ","="," ","1">>) }
DocFiles == [p \in {d.fileName : d \in Docs} |-> (CHOOSE d \in Docs : d.fileName = p).text]
WithFile(files, path, content) ==
  [p \in DOMAIN files \cup {path} |-> IF p = path THEN content ELSE files[p]]
Workspaces == {
  DocFiles,
  WithFile(DocFiles, <<<<"w">>, <<"u",".","p","y">>>>, <<"h","h","(","1",")">>),
  WithFile(WithFile(DocFiles, <<<<"w">>, <<"u",".","p","y">>>>, <<"h","h","(","1",")">>), <<<<"w">>, <<"v",".","j","s">>>>, <<"g","g","(",")">>) }

\* the sets of files whose read fails
Unreadables == {{}, {<<<<"w">>, <<"b",".","j","s">>>>}}
Init ==
  /\ fsys \in [files : Workspaces, pip : {PipFails}, unreadable : Unreadables]
  /\ lastStats = 0
  /\ heap = <<>>
  /\ reqs = <<>>
  /\ provider = [view |-> FALSE, lastStats |-> 0, html |-> [shown |-> "none"]]
  /\ delivered = <<>>
  /\ lang = Idle /\ code = Idle /\ pc = Idle /\ stats = Idle

\* analyzeDoc up to its await: the summary object it creates
Analysed(d) ==
  LET WithDeps(st) ==
        [st EXCEPT !.depIssues = checkDependencies(st.imports, d.fileName, d.languageId)]
  IN WithDeps(parseCode(d.text, d.fileName, d.languageId))
\* analyzeDoc after its await, run by request i whose own object is own, when the global
\* lastStats is g: store the scan result in the own object, then filter and hand over the
\* object the global refers to
Resume(i, own, g, h) ==
  LET Deliver(h2) ==
        /\ heap' = h2
        /\ provider' = updateStats(provider, g, h2[g])
        /\ delivered' = Append(delivered, [req |-> i, obj |-> g, summary |-> h2[g]])
      Filter(h1) == Deliver([h1 EXCEPT ![g].unused = FilterUnused(@, h1[g].externalUsage)])
  IN Filter([h EXCEPT ![own].externalUsage = scanExternalUsage(reqs'[i].doc.fileName, h[own])])

\* an event handler calls analyzeDoc(d): unsupported documents return at once; a document
\* with no public name gets an empty scan without any I/O and finishes in the same turn; any
\* other suspends at the workspace scan
AnalyzeDoc(d) ==
  /\ Len(reqs) < MaxRequests
  /\ IF ~isSupported(d.languageId)
       THEN /\ reqs' = Append(reqs, [doc |-> d, own |-> 0, pc |-> "returned"])
            /\ UNCHANGED <<lastStats, heap, provider, delivered>>
       ELSE LET o == Len(heap) + 1
                Start(st) ==
                  /\ lastStats' = o
                  /\ IF PublicNames(st) = <<>>
                       THEN /\ reqs' = Append(reqs, [doc |-> d, own |-> o, pc |-> "done"])
                            /\ Resume(Len(reqs) + 1, o, o, Append(heap, st))
                       ELSE /\ reqs' = Append(reqs, [doc |-> d, own |-> o, pc |-> "scanning"])
                            /\ heap' = Append(heap, st)
                            /\ UNCHANGED <<provider, delivered>>
            IN Start(Analysed(d))
  /\ UNCHANGED <<lang, code, pc, stats, fsys>>

\* the scan of request i completes and analyzeDoc resumes after its await
ScanDone(i) ==
  /\ reqs[i].pc = "scanning"
  /\ reqs' = [reqs EXCEPT ![i].pc = "done"]
  /\ Resume(i, reqs[i].own, lastStats, heap)
  /\ UNCHANGED <<lang, code, pc, stats, fsys, lastStats>>

\* StatsViewProvider.resolveWebviewView: the panel becomes visible, with the empty page
ResolveWebviewView ==
  /\ ~provider.view
  /\ provider' = [provider EXCEPT !.view = TRUE, !.html = [shown |-> "empty"]]
  /\ UNCHANGED <<lang, code, pc, stats, fsys, lastStats, heap, reqs, delivered>>

Next ==
  \/ \E d \in Docs : AnalyzeDoc(d)
  \/ \E i \in 1..Len(reqs) : ScanDone(i)
  \/ ResolveWebviewView
Spec == Init /\ [][Next]_vars


(***************************************************************************)
(* Claims about overlapping analyzeDoc requests                            *)
(***************************************************************************)
\* the completed summary of a request for document d: its scan result stored and its unused
\* list filtered by that result
Completed(d) ==
  LET st == Analysed(d)
      usage == scanExternalUsage(d.fileName, st) IN
  [st EXCEPT !.externalUsage = usage, !.unused = FilterUnused(st.unused, usage)]
AnalysedRequests == {i \in 1..Len(reqs) : reqs[i].own # 0}
AllCompleted == \A i \in 1..Len(reqs) : reqs[i].pc \in {"done", "returned"}

\* C6: every summary that analyzeDoc hands to updateStats is the completed summary of the
\* request that hands it over: the request's own object, holding the result of its own scan
\* and an unused list filtered by that result.
C6_DeliveredIsOwnCompleted ==
  \A k \in 1..Len(delivered) :
    /\ delivered[k].obj = reqs[delivered[k].req].own
    /\ delivered[k].summary = Completed(reqs[delivered[k].req].doc)

\* C7: once every request has completed, the summary the panel displays is the completed
\* summary of the most recently issued request that was analysed, whatever the order in
\* which the scans finished.
C7_PanelShowsLatest ==
  (AllCompleted /\ AnalysedRequests # {} /\ provider.html.shown = "summary") =>
    provider.html.of = Completed(reqs[Max(AnalysedRequests)].doc)
\* two requests for different documents overlapped, the older one finished last, and the
\* panel shows the newer one's completed summary
C7_Witness ==
  /\ AllCompleted /\ provider.html.shown = "summary"
  /\ \E k, m \in 1..Len(delivered) :
       /\ k < m /\ delivered[k].req > delivered[m].req
       /\ reqs[delivered[k].req].doc # reqs[delivered[m].req].doc
       /\ delivered[k].req = Max(AnalysedRequests)
       /\ PublicNames(Analysed(reqs[delivered[k].req].doc)) # <<>>
       /\ PublicNames(Analysed(reqs[delivered[m].req].doc)) # <<>>
       /\ Completed(reqs[delivered[m].req].doc) # Completed(reqs[delivered[k].req].doc)
  /\ provider.html.of = Completed(reqs[Max(AnalysedRequests)].doc)

\* C30: once the panel view has been resolved and at least one summary has been handed to
\* updateStats, the panel displays the most recently delivered summary, in either order of
\* the two events: also when the first summary is delivered before the view is resolved,
\* the panel does not stay on the empty page.
C30_ResolvedPanelShowsDelivered ==
  (provider.view /\ delivered # <<>>) =>
    /\ provider.html.shown = "summary"
    /\ provider.html.of = delivered[Len(delivered)].summary

(***************************************************************************)
(* Specification of analyzeDoc requests issued one at a time, over          *)
(* workspaces in which some reads fail                                     *)
(***************************************************************************)
SoloWorkspaces ==
  Workspaces \cup
  {WithFile(WithFile(DocFiles, <<<<"w">>, <<"u",".","p","y">>>>, <<"h","h","(","1",")">>),
            <<<<"w">>, <<"v",".","j","s">>>>, <<"g","g","(",")",";"," ","h","h","(",")">>)}
SoloUnreadables ==
  SUBSET {<<<<"w">>, <<"b",".","j","s">>>>, <<<<"w">>, <<"u",".","p","y">>>>, <<<<"w">>, <<"v",".","j","s">>>>}
InitSolo ==
  /\ fsys \in [files : SoloWorkspaces, pip : {PipFails}, unreadable : SoloUnreadables]
  /\ lastStats = 0
  /\ heap = <<>>
  /\ reqs = <<>>
  /\ provider = [view |-> FALSE, lastStats |-> 0, html |-> [shown |-> "none"]]
  /\ delivered = <<>>
  /\ lang = Idle /\ code = Idle /\ pc = Idle /\ stats = Idle
\* an event handler calls analyzeDoc(d) while no earlier analysis is suspended
AnalyzeDocAlone(d) ==
  /\ \A i \in 1..Len(reqs) : reqs[i].pc \in {"done", "returned"}
  /\ AnalyzeDoc(d)
NextSolo ==
  \/ \E d \in Docs : AnalyzeDocAlone(d)
  \/ \E i \in 1..Len(reqs) : ScanDone(i)
  \/ ResolveWebviewView
SpecSolo == InitSolo /\ [][NextSolo]_vars

(***************************************************************************)
(* Claims about the workspace scan and the filtered unused list            *)
(***************************************************************************)
\* the files the scan of document d looks at, and those of them it can read
Candidates(d) ==
  {f \in DOMAIN fsys.files : f # d.fileName /\ \E e \in ScannedKinds : EndsWith(f[Len(f)], e)}
Readable(d) == Candidates(d) \ fsys.unreadable
UsedIn(d, n) == {f \in Readable(d) : HasWord(fsys.files[f], n)}
\* the names the scan of the summary st searches for
NamesOf(st) == LET names == PublicNames(st) IN {names[k].name : k \in 1..Len(names)}
\* C14: a read failure on one candidate file skips only that file: every remaining
\* candidate is still examined and the returned list holds exactly the usages found in the
\* readable candidates; the failure never aborts the scan or makes analyzeDoc fail, so
\* every request that completes holds that list.
C14_ScanSkipsOnlyUnreadable ==
  \A i \in 1..Len(reqs) :
    (reqs[i].pc = "done" /\ reqs[i].own # 0) =>
         LET usage == heap[reqs[i].own].externalUsage
             d == reqs[i].doc IN
         /\ \A k, m \in 1..Len(usage) : usage[k].name = usage[m].name => k = m
         /\ {usage[k].name : k \in 1..Len(usage)} = {n \in NamesOf(heap[reqs[i].own]) : UsedIn(d, n) # {}}
         /\ \A k \in 1..Len(usage) :
              /\ {usage[k].usedIn[j] : j \in 1..Len(usage[k].usedIn)} = UsedIn(d, usage[k].name)
              /\ Len(usage[k].usedIn) = Cardinality(UsedIn(d, usage[k].name))
\* a scan in which the first candidate cannot be read and a later one holds a usage, which
\* is returned
C14_Witness ==
  \E i \in 1..Len(reqs) :
    /\ reqs[i].pc = "done" /\ reqs[i].own # 0
    /\ \E bad \in Candidates(reqs[i].doc) \cap fsys.unreadable :
         \E k \in 1..Len(heap[reqs[i].own].externalUsage) :
           \E j \in 1..Len(heap[reqs[i].own].externalUsage[k].usedIn) :
             \E a, b \in 1..Len(findFiles) :
               /\ findFiles[a] = bad
               /\ findFiles[b] = heap[reqs[i].own].externalUsage[k].usedIn[j]
               /\ a < b

\* C15: after analyzeDoc has completed for a document with no other analysis in flight,
\* the unused list of the displayed summary contains no item whose name appears in that
\* summary's externalUsage list.
C15_UnusedExcludesExternallyUsed ==
  (AllCompleted /\ provider.html.shown = "summary") =>
    \A k \in 1..Len(provider.html.of.unused) :
      \A m \in 1..Len(provider.html.of.externalUsage) :
        provider.html.of.unused[k].name # provider.html.of.externalUsage[m].name
\* the displayed summary is of a document whose unused list held a name that the scan found
\* in another file
C15_Witness ==
  /\ AllCompleted /\ provider.html.shown = "summary" /\ AnalysedRequests # {}
  /\ provider.html.of.externalUsage # <<>>
  /\ \E k \in 1..Len(Analysed(reqs[Max(AnalysedRequests)].doc).unused) :
       Analysed(reqs[Max(AnalysedRequests)].doc).unused[k].name =
         provider.html.of.externalUsage[1].name

(***************************************************************************)
(* extension.ts: the command codestat.verifyDeps                           *)
(***************************************************************************)
PythonPath == <<"p","y">>                  \* what getPythonPath() resolved to
KwPipModule == <<" ","-","m"," ","p","i","p"," ","i","n","s","t","a","l","l"," ">>
\* whether the loop builds a check command for the language (if (!checkCmd) continue)
HasCheckCmd(language) == language = "python" \/ language \in JsTsLangs \/ language = "php"
\* the outcomes of cp.execSync(checkCmd, {timeout: 10000}): it returns, or it throws
\* because the command exited non-zero or was killed at the timeout
ExecOutcomes == {"ok", "nonzero", "timeout"}
\* the loop body where only a non-zero exit is caught as missing and a timeout leaves
\* the dependency as it was
CheckStepTimeoutKept(st, dep, outcome, language) ==
  IF ~HasCheckCmd(language) \/ outcome = "timeout" THEN [st EXCEPT !.deps = Append(@, dep)]
  ELSE IF outcome = "ok"
    THEN [deps |-> Append(st.deps, [dep EXCEPT !.status = "installed", !.installCmd = <<>>]),
          installed |-> st.installed + 1, missing |-> st.missing]
  ELSE [deps |-> Append(st.deps, [dep EXCEPT !.status = "missing"]),
        installed |-> st.installed, missing |-> st.missing + 1]
\* one iteration of for (const dep of deps): st holds the dependencies already visited
\* and the two counters
CheckStep(st, dep, outcome, language) ==
  IF ~HasCheckCmd(language) THEN [st EXCEPT !.deps = Append(@, dep)]
  ELSE IF outcome = "ok"
    THEN [deps |-> Append(st.deps, [dep EXCEPT !.status = "installed", !.installCmd = <<>>]),
          installed |-> st.installed + 1, missing |-> st.missing]
  ELSE [deps |-> Append(st.deps,
                   [dep EXCEPT !.status = "missing",
                               !.installCmd =
                                  IF language = "python"
                                    THEN <<DQ>> \o PythonPath \o <<DQ>> \o KwPipModule \o dep.name
                                  ELSE IF language \in JsTsLangs THEN KwNpmInstall \o dep.name
                                  ELSE KwComposerRequire \o dep.name]),
        installed |-> st.installed, missing |-> st.missing + 1]
\* the whole loop over deps, given the outcome of each check command
verifyLoop(deps, outcomes, language) ==
  LET F[i \in 0..Len(deps)] ==
        IF i = 0 THEN [deps |-> <<>>, installed |-> 0, missing |-> 0]
        ELSE CheckStep(F[i - 1], deps[i], outcomes[i], language)
  IN F[Len(deps)]

(***************************************************************************)
(* Specification of the verify-dependencies command                        *)
(***************************************************************************)
MaxDeps == 2
VerifyLangs == {"python", "javascript", "typescript", "php", "html"}
VerifyNames == {<<"r","e","q","u","e","s","t","s">>, <<"m","y","-","p","k","g">>}
\* the DepIssue records checkDependencies leaves in lastStats.depIssues
DepIssuesOf(language) ==
  {[name |-> n, status |-> st, lineNumber |-> 1, installCmd |-> InstallCmd(n, st, language)] :
     n \in VerifyNames, st \in {"unknown", "missing", "installed"}}
InitVerify ==
  /\ lang \in VerifyLangs
  /\ stats \in {[depIssues |-> ds] : ds \in UNION {[1..n -> DepIssuesOf(lang)] : n \in 0..MaxDeps}}
  /\ pc = "ready"
  /\ provider = [view |-> TRUE, lastStats |-> 0, html |-> [shown |-> "empty"]]
  /\ code = Idle /\ fsys = Idle /\ lastStats = Idle /\ heap = Idle /\ reqs = Idle
  /\ delivered = Idle

\* the command on a file with no external dependency: a message and nothing else
VerifyNoDeps ==
  /\ pc = "ready" /\ Len(stats.depIssues) = 0
  /\ pc' = "returned"
  /\ UNCHANGED <<lang, code, stats, fsys, lastStats, heap, reqs, provider, delivered>>
\* the command: every dependency is checked in turn, whatever the earlier checks gave,
\* then the panel is refreshed and the counters are shown
VerifyDeps ==
  /\ pc = "ready" /\ Len(stats.depIssues) > 0
  /\ \E outcomes \in [1..Len(stats.depIssues) -> ExecOutcomes] :
       LET Finish(r) ==
             /\ stats' = [depIssues |-> r.deps, installed |-> r.installed,
                          missing |-> r.missing, outcomes |-> outcomes,
                          before |-> stats.depIssues]
             /\ provider' = updateStats(provider, 0, [depIssues |-> r.deps])
       IN Finish(verifyLoop(stats.depIssues, outcomes, lang))
  /\ pc' = "done"
  /\ UNCHANGED <<lang, code, fsys, lastStats, heap, reqs, delivered>>
NextVerify == VerifyNoDeps \/ VerifyDeps
SpecVerify == InitVerify /\ [][NextVerify]_vars

\* C13: a check command that exits non-zero or times out sets that dependency to missing
\* and the command goes on with the rest; when the command completes, every dependency
\* that had a check command is installed (check succeeded) or missing (check failed),
\* never unknown, and the two counters sum to the number of dependencies checked.
C13_VerifyClassifiesEveryDep ==
  (pc = "done" /\ HasCheckCmd(lang)) =>
    /\ Len(stats.depIssues) = Len(stats.before)
    /\ \A k \in 1..Len(stats.depIssues) :
         /\ stats.depIssues[k].name = stats.before[k].name
         /\ stats.depIssues[k].status = IF stats.outcomes[k] = "ok" THEN "installed" ELSE "missing"
    /\ stats.installed + stats.missing = Len(stats.depIssues)
    /\ stats.installed = Cardinality({k \in 1..Len(stats.depIssues) : stats.outcomes[k] = "ok"})
\* a run in which the first check times out on a dependency that was unknown and the
\* second check still runs and succeeds
C13_Witness ==
  /\ pc = "done" /\ HasCheckCmd(lang) /\ Len(stats.depIssues) = 2
  /\ stats.before[1].status = "unknown" /\ stats.outcomes[1] = "timeout"
  /\ stats.depIssues[1].status = "missing"
  /\ stats.outcomes[2] = "ok" /\ stats.depIssues[2].status = "installed"
  /\ stats.installed = 1 /\ stats.missing = 1

(***************************************************************************)
(* Specification of one call of parseCode on a text and a language tag     *)
(***************************************************************************)
MaxChunks == 2      \* a text is at most this many pieces, each one or more lines
\* pieces of Python text: an import list left open, a method header on the last line, an
\* unterminated string, an annotation block left open and a closed one, a marker comment
PyChunks == {
  <<"f","r","o","m"," ","x"," ","i","m","p","o","r","t"," ","(","a","b">>,
  <<"c","l","a","s","s"," ","A",":",NL," "," "," "," ","d","e","f"," ","f","(","s","e","l","f",")",":">>,
  <<"s"," ","="," ",DQ,"a","b","c">>,
  <<"#"," ","-","-","-","m","e","t","a",NL,"#"," ","n","a","m","e",":"," ","N">>,
  <<"#"," ","-","-","-","m","e","t","a",NL,"#"," ","i","n",":"," ","x",NL,"#"," ","-","-","-">>,
  <<"#"," ","T","O","D","O",":"," ","z",NL,"t","r","y",":">>,
  <<"d","e","f"," ","g","(",")",":",NL," "," "," "," ","u"," ","="," ",DQ,"h","t","t","p",":","/","/","a",".","b",DQ>> }
\* pieces of JS/TS text
JsChunks == {
  <<"i","m","p","o","r","t"," ","{","a","$","b","}"," ","f","r","o","m"," ",SQ,"x",SQ>>,
  <<"c","l","a","s","s"," ","A"," ","{",NL," "," ","m","(",")"," ","{">>,
  <<"c","o","n","s","t"," ","s"," ","="," ",SQ,"a","b","c">>,
  <<"/","/"," ","-","-","-","m","e","t","a",NL,"/","/"," ","n","a","m","e",":"," ","N">>,
  <<"f","u","n","c","t","i","o","n"," ","f","(",")"," ","{",NL,"}">>,
  <<"/","/"," ","F","I","X","M","E"," ","y",NL,"}"," ","c","a","t","c","h"," ","(","e",")"," ","{">> }
\* pieces of PHP text
PhpChunks == {
  <<"u","s","e"," ","A",BS,"B",";">>,
  <<"c","l","a","s","s"," ","A"," ","{",NL," "," ","p","u","b","l","i","c"," ","f","u","n","c","t","i","o","n"," ","f","(",")"," ","{">>,
  <<"f","u","n","c","t","i","o","n"," ","g","(",")"," ","{">>,
  <<"/","/"," ","-","-","-","m","e","t","a",NL,"/","/"," ","i","n",":"," ","x",NL,"/","/"," ","-","-","-">>,
  <<"$","s"," ","="," ",DQ,"a","b","c">>,
  <<"/","/"," ","X","X","X",NL,"}"," ","c","a","t","c","h"," ","(","E"," ","$","e",")"," ","{">> }
\* pieces of HTML text
HtmlChunks == {
  <<"<","s","c","r","i","p","t"," ","s","r","c","=",DQ,"a",".","j","s",DQ,">">>,
  <<"<","d","i","v"," ","i","d","=",DQ,"m",DQ,">">>,
  <<"<","s","c","r","i","p","t",">",NL,"f","u","n","c","t","i","o","n"," ","g","o","(",")"," ","{">>,
  <<"<","!","-","-"," ","-","-","-","m","e","t","a",NL,"n","a","m","e",":"," ","N">>,
  <<"<","a"," ","h","r","e","f","=",DQ,"h","t","t","p",":","/","/","x",".","y","/","z",DQ,">">>,
  <<"<","!","-","-"," ","T","O","D","O"," ","x"," ","-","-",">">> }
\* pieces of CSS text
CssChunks == {
  <<"@","i","m","p","o","r","t"," ",SQ,"b",".","c","s","s",SQ>>,
  <<".","a"," ","{">>,
  <<"c","o","l","o","r",":"," ","r","e","d",";",NL,"}">>,
  <<"/","*"," ","N","O","T","E"," ","n"," ","*","/">>,
  <<"x"," ","1","0",".","0",".","0",".","1">>,
  <<"*"," ","-","-","-","m","e","t","a",NL,"*"," ","n","a","m","e",":"," ","N">> }
UnsupportedTags == {"ruby", "plaintext"}
ParseTags == {"python", "javascript", "typescriptreact", "php", "html", "css"} \cup UnsupportedTags
ChunksOf(languageId) ==
  CASE languageId \in JsTsLangs -> JsChunks
    [] languageId = "php" -> PhpChunks
    [] languageId = "html" -> HtmlChunks
    [] languageId = "css" -> CssChunks
    [] OTHER -> PyChunks
\* the texts of a language: the empty text, and up to MaxChunks pieces on consecutive lines
TextsOf(languageId) ==
  {Join(cs, NL) : cs \in UNION {[1..n -> ChunksOf(languageId)] : n \in 0..MaxChunks}}
ParsedFileName == <<"m">>
InitParse ==
  /\ lang \in ParseTags
  /\ code \in TextsOf(lang)
  /\ pc = "ready"
  /\ stats = Idle
  /\ fsys = Idle /\ lastStats = Idle /\ heap = Idle /\ reqs = Idle
  /\ provider = Idle /\ delivered = Idle
\* parseCode(code, fileName, languageId): the call returns its summary, or raises
ParseCode ==
  /\ pc = "ready"
  /\ LET Outcome(raises) ==
           /\ pc' = IF raises THEN "raised" ELSE "returned"
           /\ stats' = IF raises THEN Idle ELSE parseCode(code, ParsedFileName, lang)
     IN Outcome(parseCodeRaises(code, lang))
  /\ UNCHANGED <<lang, code, fsys, lastStats, heap, reqs, provider, delivered>>
NextParse == ParseCode
SpecParse == InitParse /\ [][NextParse]_vars

(***************************************************************************)
(* Claims about one call of parseCode                                      *)
(***************************************************************************)
SummaryFields == {"fileName", "language", "meta", "imports", "classes", "functions",
                  "debugPoints", "totalLines", "codeLines", "hardcoded", "unused",
                  "diagnostics", "depIssues", "todos", "externalUsage"}
\* the text opens an annotation block and no --- follows the first header
NeverClosed(text) ==
  LET Q == {q \in AllPos(text) : At(text, q, KwMeta)} IN
  Q # {} /\ \A p \in (Min(Q) + 1)..Len(text) : ~At(text, p, KwDashes)
\* some extracted import name holds a character that is special in a pattern
SpecialImportName(st) ==
  \E k \in 1..Len(st.imports) : \E j \in 1..Len(st.imports[k].names) :
    \E p \in 1..Len(st.imports[k].names[j]) : st.imports[k].names[j][p] \in RegexSpecial
\* C16: parseCode returns a summary without raising for every text and every language tag,
\* among them the empty text, unterminated strings, unbalanced braces, a header on the last
\* line and an annotation block that is never closed; what it cannot match is left out: an
\* unclosed block gives no annotations and the empty text gives empty lists.
C16_ParseReturnsSummary ==
  pc # "ready" =>
    /\ pc = "returned"
    /\ DOMAIN stats = SummaryFields
    /\ stats.totalLines = Len(LinesOf(code))
    /\ NeverClosed(code) => stats.meta = NullMeta
    /\ code = <<>> =>
         /\ stats.imports = <<>> /\ stats.classes = <<>> /\ stats.functions = <<>>
         /\ stats.hardcoded = <<>> /\ stats.unused = <<>> /\ stats.todos = <<>>
         /\ stats.debugPoints = <<>> /\ stats.meta = NullMeta
\* a call has returned for a text with an unclosed annotation block and an import name that
\* holds a pattern character
C16_Witness ==
  /\ pc = "returned"
  /\ NeverClosed(code)
  /\ SpecialImportName(stats)

\* every line number a summary holds
LineNumbers(st) ==
  {st.imports[k].lineNumber : k \in 1..Len(st.imports)}
  \cup {st.classes[k].lineNumber : k \in 1..Len(st.classes)}
  \cup UNION {{st.classes[k].methods[j].lineNumber : j \in 1..Len(st.classes[k].methods)} :
                k \in 1..Len(st.classes)}
  \cup {st.functions[k].lineNumber : k \in 1..Len(st.functions)}
  \cup {st.hardcoded[k].lineNumber : k \in 1..Len(st.hardcoded)}
  \cup {st.unused[k].lineNumber : k \in 1..Len(st.unused)}
  \cup {st.todos[k].lineNumber : k \in 1..Len(st.todos)}
  \cup {st.debugPoints[k] : k \in 1..Len(st.debugPoints)}
\* C17: every lineNumber in a summary returned by parseCode (imports, classes, methods,
\* functions, hardcoded findings, unused items, marker comments, debugPoints) is an integer
\* between 1 and totalLines.
C17_LineNumbersInRange ==
  pc = "returned" => \A n \in LineNumbers(stats) : n \in 1..stats.totalLines
\* a summary with a method, a marker comment and a debug point, one of them on the first line
\* and one on the last
C17_Witness ==
  /\ pc = "returned"
  /\ stats.totalLines > 1
  /\ \E k \in 1..Len(stats.classes) : stats.classes[k].methods # <<>>
  /\ stats.todos # <<>> /\ stats.debugPoints # <<>>
  /\ {1, stats.totalLines} \subseteq LineNumbers(stats)

\* C19: parseCode called with a language tag outside the supported set runs the Python
\* extractor and returns its summary (with the marker comments parseCode adds) instead of
\* failing.
C19_UnsupportedTagRunsPython ==
  (pc # "ready" /\ ~isSupported(lang)) =>
    /\ pc = "returned"
    /\ stats = [parsePythonCode(code, ParsedFileName) EXCEPT !.todos = scanTodos(LinesOf(code))]
\* an unsupported tag has given a summary with a Python class and its method
C19_Witness ==
  /\ pc = "returned"
  /\ lang \in UnsupportedTags
  /\ stats.language = "python"
  /\ \E k \in 1..Len(stats.classes) : stats.classes[k].methods # <<>>

(***************************************************************************)
(* Specification of repeated calls of parseCode, each followed by          *)
(* lastStats = stats as in analyzeDoc                                      *)
(***************************************************************************)
MaxCalls == 3
ReparseDocs == {
  [text |-> <<"c","l","a","s","s"," ","A",":",NL," "," "," "," ","d","e","f"," ","f","(","s","e","l","f",")",":">>, fileName |-> <<"m">>, languageId |-> "python"],
  [text |-> <<"c","l","a","s","s"," ","A",":",NL," "," "," "," ","d","e","f"," ","f","(","s","e","l","f",")",":">>, fileName |-> <<"m">>, languageId |-> "php"],
  [text |-> <<"i","m","p","o","r","t"," ","{","a","$","b","}"," ","f","r","o","m"," ",SQ,"x",SQ,NL,"/","/"," ","F","I","X","M","E"," ","y",NL,"}"," ","c","a","t","c","h"," ","(","e",")"," ","{">>,
   fileName |-> <<"m">>, languageId |-> "javascript"],
  [text |-> <<"i","m","p","o","r","t"," ","{","a","$","b","}"," ","f","r","o","m"," ",SQ,"x",SQ,NL,"/","/"," ","F","I","X","M","E"," ","y",NL,"}"," ","c","a","t","c","h"," ","(","e",")"," ","{">>,
   fileName |-> <<"n">>, languageId |-> "javascript"],
  [text |-> <<"<","s","c","r","i","p","t",">",NL,"f","u","n","c","t","i","o","n"," ","g","o","(",")"," ","{",NL,"<","s","c","r","i","p","t"," ","s","r","c","=",DQ,"a",".","j","s",DQ,">">>,
   fileName |-> <<"m">>, languageId |-> "html"] }
InitReparse ==
  /\ delivered = <<>>
  /\ lastStats = 0
  /\ lang = Idle /\ code = Idle /\ pc = Idle /\ stats = Idle
  /\ fsys = Idle /\ heap = Idle /\ reqs = Idle /\ provider = Idle
\* a call whose import list starts with the imports of the summary before it
ParseAgainCarrying(d) ==
  /\ Len(delivered) < MaxCalls
  /\ LET Kept(st) ==
           /\ delivered' = Append(delivered, [doc |-> d, summary |->
                [st EXCEPT !.imports = (IF delivered = <<>> THEN <<>> ELSE lastStats.imports) \o @]])
           /\ lastStats' = st
     IN Kept(parseCode(d.text, d.fileName, d.languageId))
  /\ UNCHANGED <<lang, code, pc, stats, fsys, heap, reqs, provider>>
\* analyzeDoc on a supported document: lastStats = parseCode(code, fileName, doc.languageId),
\* the call and its result recorded
ParseAgain(d) ==
  /\ Len(delivered) < MaxCalls
  /\ LET Kept(st) ==
           /\ delivered' = Append(delivered, [doc |-> d, summary |-> st])
           /\ lastStats' = st
     IN Kept(parseCode(d.text, d.fileName, d.languageId))
  /\ UNCHANGED <<lang, code, pc, stats, fsys, heap, reqs, provider>>
NextReparse == \E d \in ReparseDocs : ParseAgain(d)
SpecReparse == InitReparse /\ [][NextReparse]_vars

KwPyBranch == {<<"i","f">>, <<"e","l","i","f">>, <<"e","l","s","e">>, <<"f","o","r">>,
               <<"w","h","i","l","e">>, <<"e","x","c","e","p","t">>, <<"c","a","s","e">>}
\* the two tests of countBranches on one trimmed line: the leading keyword and the inline if
PyBranchMarks(t) ==
  (IF StartsWithKw(t, KwPyBranch) THEN 1 ELSE 0)
  + (IF HasWord(t, <<"i","f">>) /\ ~StartsWith(t, <<"i","f">>) /\ ~StartsWith(t, <<"e","l","i","f">>)
     THEN 1 ELSE 0)
RECURSIVE SumOver(_, _)
SumOver(f, S) == IF S = {} THEN 0 ELSE LET x == CHOOSE y \in S : TRUE IN f[x] + SumOver(f, S \ {x})
\* countBranches(lines, startIdx): the loop runs from the line after the header to the first
\* non-blank line indented no deeper than the header
countBranches(lines, startIdx) ==
  LET body == {i \in (startIdx + 1)..(PyBlockEnd(lines, startIdx) - 1) : Trim(lines[i]) # <<>>}
  IN SumOver([i \in body |-> PyBranchMarks(Trim(lines[i]))], body)

MaxBranchLines == 4
PyBranchPool == {
  <<"d","e","f"," ","f","(",")",":">>,
  <<" "," ","i","f"," ","x",":">>,
  <<" "," ","r","e","t","u","r","n"," ","1">>,
  <<"d","e","f"," ","g","(",")",":"," ","r","e","t","u","r","n"," ","2">>,
  <<"x"," ","="," ","1"," ","i","f"," ","y"," ","e","l","s","e"," ","2">> }
JsBranchPool == {
  <<"c","o","n","s","t"," ","f"," ","="," ","(","x",")"," ","=",">"," ","x",";">>,
  <<"f","u","n","c","t","i","o","n"," ","g","(",")"," ","{">>,
  <<" "," ","i","f"," ","(","x",")"," ","{"," ","y","(",")",";"," ","}">>,
  <<"}">> }
PhpBranchPool == {
  <<"f","u","n","c","t","i","o","n"," ","h","(",")",";">>,
  <<"f","u","n","c","t","i","o","n"," ","g","(",")"," ","{">>,
  <<" "," ","i","f"," ","(","x",")"," ","{"," ","y","(",")",";"," ","}">>,
  <<"}">> }
BranchPoolOf(tag) ==
  CASE tag = "python" -> PyBranchPool
    [] tag = "javascript" -> JsBranchPool
    [] tag = "php" -> PhpBranchPool

InitBranches ==
  /\ lang \in {"python", "javascript", "php"}
  /\ code \in FilesOver(BranchPoolOf(lang), MaxBranchLines)
  /\ pc = "ready"
  /\ stats = Idle
  /\ fsys = Idle /\ lastStats = Idle /\ heap = Idle /\ reqs = Idle
  /\ provider = Idle /\ delivered = Idle

Callable(nm, n, c) == [name |-> nm, lineNumber |-> n, complexity |-> c]
\* parsePythonCode: functions: parseTopLevelFunctions (complexity: countBranches(lines, i))
CountPyBranches ==
  /\ pc = "ready" /\ lang = "python"
  /\ LET lines == LinesOf(code)
         Summary(fs) ==
           [functions |-> [k \in 1..Len(fs) |->
              Callable(fs[k].name, fs[k].lineNumber, countBranches(lines, fs[k].lineNumber))]]
     IN stats' = Summary(parseTopLevelFunctions(lines))
  /\ pc' = "done"
  /\ UNCHANGED <<lang, code, fsys, lastStats, heap, reqs, provider, delivered>>
\* parseJsCode: functions: parseJsFunctions (complexity: countJsBranches(lines, i))
CountJsBranches ==
  /\ pc = "ready" /\ lang = "javascript"
  /\ LET lines == LinesOf(code)
         Summary(fs) ==
           [functions |-> [k \in 1..Len(fs) |->
              Callable(fs[k].name, fs[k].lineNumber, countJsBranches(lines, fs[k].lineNumber))]]
     IN stats' = Summary(parseJsFunctions(lines))
  /\ pc' = "done"
  /\ UNCHANGED <<lang, code, fsys, lastStats, heap, reqs, provider, delivered>>
\* parsePhpCode: functions: parsePhpFunctions (complexity: countPhpBranches(lines, i))
CountPhpBranches ==
  /\ pc = "ready" /\ lang = "php"
  /\ LET lines == LinesOf(code)
         Summary(fs) ==
           [functions |-> [k \in 1..Len(fs) |->
              Callable(fs[k].name, fs[k].lineNumber, countPhpBranches(lines, fs[k].lineNumber))]]
     IN stats' = Summary(parsePhpFunctions(lines))
  /\ pc' = "done"
  /\ UNCHANGED <<lang, code, fsys, lastStats, heap, reqs, provider, delivered>>

NextBranches == CountPyBranches \/ CountJsBranches \/ CountPhpBranches
SpecBranches == InitBranches /\ [][NextBranches]_vars

\* a declaration that is complete on its header line: no brace, closed by a semicolon
HeaderOnly(l) == CountCh(l, "{") = 0 /\ Trim(l) # <<>> /\ Trim(l)[Len(Trim(l))] = ";"
\* the lines of the callable declared on line n: the header alone when the declaration is
\* complete there, the lines up to the closing brace otherwise, the indented block in Python
OwnSpan(lines, n) ==
  IF lang = "python" THEN (n + 1)..(PyBlockEnd(lines, n) - 1)
  ELSE IF HeaderOnly(lines[n]) THEN {n}
  ELSE n..(BraceSpanEnd(lines, n) - 1)
BranchMarks(t) ==
  CASE lang = "python" -> PyBranchMarks(t)
    [] lang = "javascript" ->
         (IF StartsWithKw(t, KwJsBranch) THEN 1 ELSE 0)
         + (IF Includes(t, <<"?">>) /\ Includes(t, <<":">>) THEN 1 ELSE 0)
    [] lang = "php" -> countPhpBranches(<<t>>, 1)
OwnBranches(lines, n) ==
  SumOver([i \in OwnSpan(lines, n) |-> BranchMarks(Trim(lines[i]))], OwnSpan(lines, n))

\* C22: the complexity of a callable counts only the branch constructs inside its own body
\* span, in each of the three languages; the constructs of a later declaration are never
\* added to it, also when the callable is a single-expression arrow function or a header
\* without braces.
C22_ComplexityWithinOwnSpan ==
  pc = "done" =>
    \A k \in 1..Len(stats.functions) :
      stats.functions[k].complexity = OwnBranches(LinesOf(code), stats.functions[k].lineNumber)

(***************************************************************************)
(* Specification of the Python code-line count over docstrings             *)
(***************************************************************************)
MaxDocLines == 4
DocPool == {
  <<"x"," ","="," ","1">>, <<>>, <<"#"," ","c">>,
  <<DQ,DQ,DQ>>, <<DQ,DQ,DQ,"d","o","c",DQ,DQ,DQ>>, <<DQ,DQ,DQ,"S","u","m">>,
  <<"e","n","d",".",DQ,DQ,DQ>> }

InitDocstring ==
  /\ lang = "python"
  /\ code \in FilesOver(DocPool, MaxDocLines)
  /\ pc = "ready"
  /\ stats = Idle
  /\ fsys = Idle /\ lastStats = Idle /\ heap = Idle /\ reqs = Idle
  /\ provider = Idle /\ delivered = Idle
NextDocstring == CountPython
SpecDocstring == InitDocstring /\ [][NextDocstring]_vars

TripleQuotes == {<<DQ, DQ, DQ>>, <<SQ, SQ, SQ>>}
\* the lines of a file that belong to a docstring: one opens on a line that starts with a
\* triple quote and ends on the first line, that line or a later one, that holds the same
\* triple quote again; open is the quote of the docstring still open after the line
DocstringStep(st, line) ==
  LET t == Trim(line) IN
  IF st.open # <<>>
    THEN [inside |-> Append(st.inside, TRUE),
          open |-> IF Includes(t, st.open) THEN <<>> ELSE st.open]
  ELSE IF \E q \in TripleQuotes : StartsWith(t, q)
    THEN [inside |-> Append(st.inside, TRUE),
          open |-> IF Includes(SubSeq(t, 4, Len(t)), SubSeq(t, 1, 3)) THEN <<>>
                   ELSE SubSeq(t, 1, 3)]
  ELSE [inside |-> Append(st.inside, FALSE), open |-> <<>>]
DocstringLines(lines) == FoldLines(lines, [inside |-> <<>>, open |-> <<>>], DocstringStep).inside
CodeLineSet(lines) ==
  {i \in 1..Len(lines) :
     /\ Trim(lines[i]) # <<>>
     /\ ~StartsWith(Trim(lines[i]), <<"#">>)
     /\ ~DocstringLines(lines)[i]}

\* C23: for Python input codeLines is the number of lines that are non-blank, do not start
\* with '#' and are not part of a docstring (opening, interior and closing line); a
\* docstring ends at the line that contains its closing triple quote, so the code lines
\* after that line are counted.
C23_CodeLinesSkipDocstrings ==
  (pc = "done" /\ lang = "python") =>
    stats.codeLines = Cardinality(CodeLineSet(LinesOf(code)))

(***************************************************************************)
(* Parameter lists: splitParams / parseParams (pythonParser.ts),           *)
(* splitJsParams / parseJsParams (jsParser.ts), parsePhpParams             *)
(***************************************************************************)
\* the depth counter of a split loop after the character at p
DepthAfter(s, p, Open, Close) ==
  Cardinality({q \in 1..p : s[q] \in Open}) - Cardinality({q \in 1..p : s[q] \in Close})
\* the pieces of s between the positions of P, in order
CutAt(s, P) ==
  LET cuts == SelectIdx(Len(s), LAMBDA p : p \in P) IN
  [k \in 1..(Len(cuts) + 1) |->
     SubSeq(s, IF k = 1 THEN 1 ELSE cuts[k - 1] + 1,
               IF k <= Len(cuts) THEN cuts[k] - 1 ELSE Len(s))]
\* if (current.trim()) result.push(current): the last piece is kept only when it is not blank
DropBlankLast(parts) ==
  IF Trim(parts[Len(parts)]) = <<>> THEN SubSeq(parts, 1, Len(parts) - 1) ELSE parts
splitParams(paramStr) ==
  DropBlankLast(CutAt(paramStr, {p \in 1..Len(paramStr) :
     paramStr[p] = "," /\ DepthAfter(paramStr, p, {"(", "["}, {")", "]"}) = 0}))
splitJsParams(s) ==
  DropBlankLast(CutAt(s, {p \in 1..Len(s) :
     s[p] = "," /\ DepthAfter(s, p, {"(", "{", "[", "<"}, {")", "}", "]", ">"}) = 0}))

Port(nm, ty, has, def) == [name |-> nm, type |-> ty, hasDefault |-> has, default |-> def]
\* t.slice(0, eq).trim() and t.slice(eq + 1).trim() around the first '='
BeforeEq(t) == IF IndexOf(t, <<"=">>) = 0 THEN t ELSE Trim(SubSeq(t, 1, IndexOf(t, <<"=">>) - 1))
AfterEq(t) == IF IndexOf(t, <<"=">>) = 0 THEN <<>> ELSE Trim(SubSeq(t, IndexOf(t, <<"=">>) + 1, Len(t)))
\* splitNameType: [name, type] around the first ':'
splitNameType(s) ==
  LET c == IndexOf(s, <<":">>) IN
  IF c = 0 THEN [name |-> Trim(s), type |-> <<"A","n","y">>]
  ELSE [name |-> Trim(SubSeq(s, 1, c - 1)), type |-> Trim(SubSeq(s, c + 1, Len(s)))]
OrElse(v, d) == IF v = <<>> THEN d ELSE v        \* v || d on strings
PyPortOf(t) ==
  LET stars == IF StartsWith(t, <<"*","*">>) THEN <<"*","*">> ELSE <<"*">>
      Starred(nt) == Port(stars \o nt.name, OrElse(nt.type, <<"A","n","y">>), FALSE, <<>>)
      Plain(nt) == Port(nt.name, OrElse(nt.type, <<"A","n","y">>),
                        IndexOf(t, <<"=">>) > 0, AfterEq(t))
  IN IF StartsWith(t, <<"*">>) THEN Starred(splitNameType(SubSeq(t, Len(stars) + 1, Len(t))))
     ELSE Plain(splitNameType(BeforeEq(t)))
parseParams(paramStr) ==
  IF Trim(paramStr) = <<>> THEN <<>>
  ELSE LET Kept(parts) ==
             LET I == SelectIdx(Len(parts), LAMBDA k :
                        Trim(parts[k]) \notin {<<>>, <<"*">>, <<"/">>})
             IN [k \in 1..Len(I) |-> PyPortOf(Trim(parts[I[k]]))]
       IN Kept(splitParams(paramStr))

\* name.replace(/^\.\.\.|[?]$/g, '')
JsBareName(nm) ==
  LET a == IF StartsWith(nm, <<".",".",".">>) THEN SubSeq(nm, 4, Len(nm)) ELSE nm IN
  IF a # <<>> /\ a[Len(a)] = "?" THEN SubSeq(a, 1, Len(a) - 1) ELSE a
JsPortOf(t) ==
  LET nm == BeforeEq(t)
      col == IndexOf(nm, <<":">>)
  IN Port(JsBareName(IF col = 0 THEN nm ELSE Trim(SubSeq(nm, 1, col - 1))),
          IF col = 0 THEN <<"a","n","y">> ELSE Trim(SubSeq(nm, col + 1, Len(nm))),
          IndexOf(t, <<"=">>) > 0, AfterEq(t))
parseJsParams(s) ==
  IF Trim(s) = <<>> THEN <<>>
  ELSE LET Kept(parts) ==
             LET I == SelectIdx(Len(parts), LAMBDA k :
                        Trim(parts[k]) # <<>> /\ JsPortOf(Trim(parts[k])).name # <<>>)
             IN [k \in 1..Len(I) |-> JsPortOf(Trim(parts[I[k]]))]
       IN Kept(splitJsParams(s))

\* name.match(/^(\??\w[\w\\|]*)\s+(\$\w+)$/): [ok, type, name]
PhpTypedName(nm) ==
  LET a == IF Ch(nm, 1) = "?" THEN 2 ELSE 1
      b == IF IsW(nm, a) THEN Run(nm, a + 1, WordCh \cup {BS, "|"}) ELSE a
      c == Run(nm, b, WsCh)
      d == IF Ch(nm, c) = "$" THEN Run(nm, c + 1, WordCh) ELSE c
      ok == b > a /\ c > b /\ d > c + 1 /\ d = Len(nm) + 1
  IN [ok |-> ok, type |-> IF ok THEN SubSeq(nm, 1, b - 1) ELSE <<>>,
      name |-> IF ok THEN SubSeq(nm, c, d - 1) ELSE <<>>]
\* name.match(/(\$\w+)/): the first '$' followed by a word character, with its word
PhpFirstVar(nm) ==
  LET P == {p \in 1..Len(nm) : nm[p] = "$" /\ IsW(nm, p + 1)} IN
  IF P = {} THEN nm ELSE SubSeq(nm, Min(P), Run(nm, Min(P) + 1, WordCh) - 1)
PhpPortOf(t) ==
  LET nm == BeforeEq(t) IN
  Port(IF PhpTypedName(nm).ok THEN PhpTypedName(nm).name
       ELSE IF StartsWith(nm, <<"$">>) THEN nm ELSE PhpFirstVar(nm),
       IF PhpTypedName(nm).ok THEN PhpTypedName(nm).type ELSE <<"m","i","x","e","d">>,
       IndexOf(t, <<"=">>) > 0, AfterEq(t))
\* parsePhpParams: s.split(',') without any depth counter
parsePhpParams(s) ==
  IF Trim(s) = <<>> THEN <<>>
  ELSE LET Kept(parts) ==
             LET I == SelectIdx(Len(parts), LAMBDA k : Trim(parts[k]) # <<>>)
             IN [k \in 1..Len(I) |-> PhpPortOf(Trim(parts[I[k]]))]
       IN Kept(Split(s, ","))

(***************************************************************************)
(* Specification of the parameter lists of the three extractors            *)
(***************************************************************************)
MaxParams == 3
PyParamPool == { <<"a">>, <<"b","=","[","1",",","2","]">>,
  <<"c",":"," ","D","i","c","t","[","s","t","r",","," ","i","n","t","]">>,
  <<"*","a","r","g","s">>, <<" ">> }
JsParamPool == { <<"a">>, <<"b"," ","="," ","[","1",","," ","2","]">>,
  <<"m",":"," ","M","a","p","<","K",","," ","V",">">>, <<".",".",".","r">>, <<" ">> }
PhpParamPool == { <<"$","a">>, <<"$","b"," ","="," ","[","1",","," ","2","]">>,
  <<"i","n","t"," ","$","c">>, <<" ">> }
ParamPoolOf(tag) ==
  CASE tag = "python" -> PyParamPool
    [] tag = "javascript" -> JsParamPool
    [] tag = "php" -> PhpParamPool
\* the text between the parentheses of a header, \(([^)]*)\): 1..n parts joined by commas
ParamTexts(pool, n) == {Join(f, ",") : f \in UNION {[1..k -> pool] : k \in 1..n}}

InitParams ==
  /\ lang \in {"python", "javascript", "php"}
  /\ code \in ParamTexts(ParamPoolOf(lang), MaxParams)
  /\ pc = "ready"
  /\ stats = Idle
  /\ fsys = Idle /\ lastStats = Idle /\ heap = Idle /\ reqs = Idle
  /\ provider = Idle /\ delivered = Idle
\* params: parseParams(defMatch[3])
ParsePyParams ==
  /\ pc = "ready" /\ lang = "python"
  /\ stats' = [params |-> parseParams(code)]
  /\ pc' = "done"
  /\ UNCHANGED <<lang, code, fsys, lastStats, heap, reqs, provider, delivered>>
\* params: parseJsParams(f1[3])
ParseJsParams ==
  /\ pc = "ready" /\ lang = "javascript"
  /\ stats' = [params |-> parseJsParams(code)]
  /\ pc' = "done"
  /\ UNCHANGED <<lang, code, fsys, lastStats, heap, reqs, provider, delivered>>
\* params: parsePhpParams(f[2])
ParsePhpParams ==
  /\ pc = "ready" /\ lang = "php"
  /\ stats' = [params |-> parsePhpParams(code)]
  /\ pc' = "done"
  /\ UNCHANGED <<lang, code, fsys, lastStats, heap, reqs, provider, delivered>>
NextParams == ParsePyParams \/ ParseJsParams \/ ParsePhpParams
SpecParams == InitParams /\ [][NextParams]_vars

\* the non-blank parts of a parameter text between its commas of nesting depth zero, the
\* depth counted over parentheses, brackets and angle brackets
TopLevelParts(s) ==
  LET Parts(all) == [k \in 1..Len(SelectIdx(Len(all), LAMBDA j : Trim(all[j]) # <<>>)) |->
                       Trim(all[SelectIdx(Len(all), LAMBDA j : Trim(all[j]) # <<>>)[k]])]
  IN Parts(CutAt(s, {p \in 1..Len(s) :
       s[p] = "," /\ DepthAfter(s, p, {"(", "[", "<"}, {")", "]", ">"}) = 0}))
\* the text a stored parameter was read from carries its name, and its default when it has one
StoredFrom(port, part) ==
  /\ Includes(part, JsBareName(IF StartsWith(port.name, <<"*">>) THEN <<"a","r","g","s">> ELSE port.name))
  /\ port.hasDefault => EndsWith(part, port.default)

\* C24: in each of the three extractors a parameter list is split only at the commas of
\* nesting depth zero (parentheses, brackets, angle brackets): a parameter whose default or
\* type holds commas inside a nested literal or generic is stored as one parameter, and the
\* number of stored parameters is the number of non-empty top-level parts.
C24_SplitAtTopLevelCommas ==
  pc = "done" =>
    /\ Len(stats.params) = Len(TopLevelParts(code))
    /\ \A k \in 1..Len(stats.params) : StoredFrom(stats.params[k], TopLevelParts(code)[k])

(***************************************************************************)
(* Error names: parseErrorTypes (pythonParser.ts), parseJsErrors           *)
(* (jsParser.ts), parsePhpErrors (phpParser.ts)                            *)
(***************************************************************************)
KwRaise == <<"r","a","i","s","e">>
KwExcept == <<"e","x","c","e","p","t">>
KwThrow == <<"t","h","r","o","w">>
KwNew == <<"n","e","w">>
NameException == <<"E","x","c","e","p","t","i","o","n">>
NameError == <<"E","r","r","o","r">>
\* kw\s+ at p: the position after the gap, or 0
AfterKw(l, p, kw) ==
  IF At(l, p, kw) /\ Run(l, p + Len(kw), WsCh) > p + Len(kw)
  THEN Run(l, p + Len(kw), WsCh) ELSE 0
\* l.match(/kw\s+(\w+)/): the leftmost match, [ok, name]
WordAfterKw(l, kw) ==
  LET P == {p \in 1..Len(l) : AfterKw(l, p, kw) > 0 /\ IsW(l, AfterKw(l, p, kw))}
      w == IF P = {} THEN 1 ELSE AfterKw(l, Min(P), kw)
  IN [ok |-> P # {}, name |-> IF P = {} THEN <<>> ELSE SubSeq(l, w, Run(l, w, WordCh) - 1)]
\* l.match(/throw\s+new\s+(\w+)/): the leftmost match, [ok, name]
ThrowNew(l) ==
  LET N(p) == IF AfterKw(l, p, KwThrow) > 0 THEN AfterKw(l, AfterKw(l, p, KwThrow), KwNew) ELSE 0
      P == {p \in 1..Len(l) : N(p) > 0 /\ IsW(l, N(p))}
      w == IF P = {} THEN 1 ELSE N(Min(P))
  IN [ok |-> P # {}, name |-> IF P = {} THEN <<>> ELSE SubSeq(l, w, Run(l, w, WordCh) - 1)]
\* l.match(/catch\s*\(\s*(\w+)\s*(?::\s*(\w+))?\)/): [ok, type], type empty when group 2 is unset
JsCatchAt(l, p) ==
  LET a == Run(l, p + 5, WsCh)
      b == IF Ch(l, a) = "(" THEN Run(l, a + 1, WsCh) ELSE a
      c == Run(l, b, WordCh)
      d == Run(l, c, WsCh)
      e == IF Ch(l, d) = ":" THEN Run(l, d + 1, WsCh) ELSE d
      f == Run(l, e, WordCh)
      head == At(l, p, KwCatch) /\ b > a /\ c > b
      typed == head /\ e > d /\ f > e /\ Ch(l, f) = ")"
  IN [ok |-> typed \/ (head /\ Ch(l, d) = ")"),
      type |-> IF typed THEN SubSeq(l, e, f - 1) ELSE <<>>]
JsCatch(l) ==
  LET P == {p \in 1..Len(l) : At(l, p, KwCatch) /\ JsCatchAt(l, p).ok} IN
  IF P = {} THEN [ok |-> FALSE, type |-> <<>>] ELSE JsCatchAt(l, Min(P))
\* l.match(/catch\s*\(\s*(\w[\w\\|]*)\s/): [ok, name]
PhpCatchAt(l, p) ==
  LET a == Run(l, p + 5, WsCh)
      b == IF Ch(l, a) = "(" THEN Run(l, a + 1, WsCh) ELSE a
      c == IF IsW(l, b) THEN Run(l, b + 1, WordCh \cup {BS, "|"}) ELSE b
      ok == At(l, p, KwCatch) /\ b > a /\ c > b /\ Ch(l, c) \in WsNl
  IN [ok |-> ok, name |-> IF ok THEN SubSeq(l, b, c - 1) ELSE <<>>]
PhpCatch(l) ==
  LET P == {p \in 1..Len(l) : At(l, p, KwCatch) /\ PhpCatchAt(l, p).ok} IN
  IF P = {} THEN [ok |-> FALSE, name |-> <<>>] ELSE PhpCatchAt(l, Min(P))
\* Set.add followed by Array.from: insertion order, each name once
AddName(names, yes, nm) ==
  IF yes /\ \A k \in 1..Len(names) : names[k] # nm THEN Append(names, nm) ELSE names
PyErrorStep(names, l) ==
  AddName(AddName(names, WordAfterKw(l, KwRaise).ok, WordAfterKw(l, KwRaise).name),
          WordAfterKw(l, KwExcept).ok /\ WordAfterKw(l, KwExcept).name # NameException,
          WordAfterKw(l, KwExcept).name)
parseErrorTypes(lines) == FoldLines(lines, <<>>, PyErrorStep)
JsErrorStep(names, l) ==
  AddName(AddName(names, ThrowNew(l).ok, ThrowNew(l).name),
          JsCatch(l).ok /\ JsCatch(l).type # <<>>, JsCatch(l).type)
parseJsErrors(lines) == FoldLines(lines, <<>>, JsErrorStep)
PhpErrorStep(names, l) ==
  AddName(AddName(names, ThrowNew(l).ok, ThrowNew(l).name), PhpCatch(l).ok, PhpCatch(l).name)
parsePhpErrors(lines) == FoldLines(lines, <<>>, PhpErrorStep)

(***************************************************************************)
(* Specification of the error names of the three extractors                *)
(***************************************************************************)
MaxErrorLines == 3
PyErrorPool == {
  <<"r","a","i","s","e"," ","E","x","c","e","p","t","i","o","n","(","x",")">>,
  <<"r","a","i","s","e"," ","K","e","y","E","r","r","o","r","(","x",")">>,
  <<"e","x","c","e","p","t"," ","E","x","c","e","p","t","i","o","n",":">>,
  <<"e","x","c","e","p","t"," ","K","e","y","E","r","r","o","r",":">>,
  <<"x"," ","="," ","1">> }
JsErrorPool == {
  <<"t","h","r","o","w"," ","n","e","w"," ","E","r","r","o","r","(","x",")",";">>,
  <<"t","h","r","o","w"," ","n","e","w"," ","T","y","p","e","E","r","r","o","r","(","x",")",";">>,
  <<"}"," ","c","a","t","c","h"," ","(","e",":"," ","E","r","r","o","r",")"," ","{">>,
  <<"}"," ","c","a","t","c","h"," ","(","e",")"," ","{">>,
  <<"x"," ","="," ","1">> }
PhpErrorPool == {
  <<"t","h","r","o","w"," ","n","e","w"," ","E","x","c","e","p","t","i","o","n","(","$","x",")",";">>,
  <<"t","h","r","o","w"," ","n","e","w"," ","M","y","E","r","r","(","$","x",")",";">>,
  <<"}"," ","c","a","t","c","h"," ","(","E","x","c","e","p","t","i","o","n"," ","$","e",")"," ","{">>,
  <<"}"," ","c","a","t","c","h"," ","(","M","y","E","r","r"," ","$","e",")"," ","{">>,
  <<"x"," ","="," ","1">> }
ErrorPoolOf(tag) ==
  CASE tag = "python" -> PyErrorPool
    [] tag = "javascript" -> JsErrorPool
    [] tag = "php" -> PhpErrorPool

InitErrors ==
  /\ lang \in {"python", "javascript", "php"}
  /\ code \in FilesOver(ErrorPoolOf(lang), MaxErrorLines)
  /\ pc = "ready"
  /\ stats = Idle
  /\ fsys = Idle /\ lastStats = Idle /\ heap = Idle /\ reqs = Idle
  /\ provider = Idle /\ delivered = Idle
\* parsePythonCode: errorTypes: parseErrorTypes(lines)
HarvestPyErrors ==
  /\ pc = "ready" /\ lang = "python"
  /\ stats' = [errorTypes |-> parseErrorTypes(LinesOf(code))]
  /\ pc' = "done"
  /\ UNCHANGED <<lang, code, fsys, lastStats, heap, reqs, provider, delivered>>
\* parseJsCode: errorTypes: parseJsErrors(lines)
HarvestJsErrors ==
  /\ pc = "ready" /\ lang = "javascript"
  /\ stats' = [errorTypes |-> parseJsErrors(LinesOf(code))]
  /\ pc' = "done"
  /\ UNCHANGED <<lang, code, fsys, lastStats, heap, reqs, provider, delivered>>
\* parsePhpCode: errorTypes: parsePhpErrors(lines)
HarvestPhpErrors ==
  /\ pc = "ready" /\ lang = "php"
  /\ stats' = [errorTypes |-> parsePhpErrors(LinesOf(code))]
  /\ pc' = "done"
  /\ UNCHANGED <<lang, code, fsys, lastStats, heap, reqs, provider, delivered>>
NextErrors == HarvestPyErrors \/ HarvestJsErrors \/ HarvestPhpErrors
SpecErrors == InitErrors /\ [][NextErrors]_vars

GenericError == IF lang = "javascript" THEN NameError ELSE NameException
\* the identifier that follows raise (Python) or throw new (JS/TS, PHP) on a line
Raised(l) == IF lang = "python" THEN WordAfterKw(l, KwRaise) ELSE ThrowNew(l)
ErrorNames == {stats.errorTypes[k] : k \in 1..Len(stats.errorTypes)}

\* C25: the errorTypes of a summary never hold the generic base exception of the language
\* (Exception for Python and PHP, Error for JS/TS), whether the name follows raise/throw or
\* is named by an except/catch clause, and they hold every other identifier that follows
\* raise/throw.
C25_NoGenericErrorType ==
  pc = "done" =>
    /\ GenericError \notin ErrorNames
    /\ \A i \in 1..Len(LinesOf(code)) :
         (Raised(LinesOf(code)[i]).ok /\ Raised(LinesOf(code)[i]).name # GenericError)
           => Raised(LinesOf(code)[i]).name \in ErrorNames

(***************************************************************************)
(* Specification of the unused-callable scan over special names            *)
(***************************************************************************)
MaxSpecialLines == 3
PySpecialPool == {
  <<"d","e","f"," ","_","_","h","h","(","x",")",":"," ","r","e","t","u","r","n"," ","x">>,
  <<"d","e","f"," ","g","g","(","x",")",":"," ","r","e","t","u","r","n"," ","x">>,
  <<"c","l","a","s","s"," ","K",":">>,
  <<" "," "," "," ","d","e","f"," ","_","_","i","n","i","t","_","_","(","s","e","l","f",")",":">>,
  <<"g","g","(","1",")">> }
JsSpecialPool == {
  <<"f","u","n","c","t","i","o","n"," ","_","_","h","h","(","x",")"," ","{"," ","r","e","t","u","r","n"," ","x"," ","}">>,
  <<"c","l","a","s","s"," ","K"," ","{">>,
  <<" "," ","c","o","n","s","t","r","u","c","t","o","r","(","x",")"," ","{","}">>,
  <<" "," ","m","m","(",")"," ","{","}">>,
  <<"}">> }

InitSpecial ==
  /\ \/ lang = "python" /\ code \in FilesOver(PySpecialPool, MaxSpecialLines)
     \/ lang = "javascript" /\ code \in FilesOver(JsSpecialPool, MaxSpecialLines)
  /\ pc = "ready"
  /\ stats = Idle
  /\ fsys = Idle /\ lastStats = Idle /\ heap = Idle /\ reqs = Idle
  /\ provider = Idle /\ delivered = Idle
NextSpecial == ScanUnusedPy \/ ScanUnusedShared
SpecSpecial == InitSpecial /\ [][NextSpecial]_vars

\* C26: no callable named __init__, constructor or __construct, or whose name starts with
\* "__", is reported as an unused callable, be it a class method or a top-level function.
C26_SpecialNameNeverUnused ==
  pc = "done" =>
    \A k \in 1..Len(stats.unused) :
      stats.unused[k].kind = "method" => ~ConstructorAlias(stats.unused[k])

(***************************************************************************)
(* Specification of the method lists of classes (JavaScript and Python)    *)
(***************************************************************************)
MaxMethodLines == 4
JsMethodPool == {
  <<"c","l","a","s","s"," ","K"," ","{">>,
  <<" "," ","m","m","(",")"," ","{">>,
  <<" "," "," "," ","g","g","(","1",")",";">>,
  <<" "," ","}">>,
  <<"}">> }
PyMethodPool == {
  <<"c","l","a","s","s"," ","K",":">>,
  <<" "," ","d","e","f"," ","m","m","(","s","e","l","f",")",":">>,
  <<" "," "," "," ","d","e","f"," ","n","n","(","s","e","l","f",")",":">>,
  <<" "," "," "," ","r","e","t","u","r","n"," ","1">>,
  <<"x"," ","="," ","1">> }

InitMethods ==
  /\ \/ lang = "javascript" /\ code \in FilesOver(JsMethodPool, MaxMethodLines)
     \/ lang = "python" /\ code \in FilesOver(PyMethodPool, MaxMethodLines)
  /\ pc = "ready"
  /\ stats = Idle
  /\ fsys = Idle /\ lastStats = Idle /\ heap = Idle /\ reqs = Idle
  /\ provider = Idle /\ delivered = Idle
NextMethods == ParseJsBodies \/ ScanUnusedPy
SpecMethods == InitMethods /\ [][NextMethods]_vars

\* line n lies directly inside the brace body of the class declared on line c: the class
\* body is open before it and no inner body is
DirectlyInClassBody(lines, c, n) ==
  /\ n > c /\ n < BraceSpanEnd(lines, c)
  /\ BraceDepth(lines, c, n - 1) = 1

\* C27: every callable in a class's methods list of the JS/TS extractor has a lineNumber
\* whose line is a method declaration header inside the brace body of that class; a
\* statement inside a method body, such as a bare call name(args); on its own line, is
\* never recorded as a method.
C27_MethodsAreClassMembers ==
  (pc = "done" /\ lang = "javascript") =>
    \A c \in 1..Len(stats.classes) : \A k \in 1..Len(stats.classes[c].methods) :
      DirectlyInClassBody(LinesOf(code), stats.classes[c].lineNumber,
                          stats.classes[c].methods[k].lineNumber)

\* the def header lines inside the body of the class declared on line c: indented more than
\* the class header, before the first non-blank line at or below its indentation
DefsInClassBody(lines, c) ==
  {i \in (c + 1)..(PyBlockEnd(lines, c) - 1) :
     /\ getIndent(lines[i]) > getIndent(lines[c])
     /\ DefMatch(lines[i], getIndent(lines[i]) + 1).ok}

\* C28: in the Python extractor every def header line inside a class body is recorded as a
\* method of that class, whatever indentation width the file uses, and no def line after
\* the end of the class body is recorded as a method of that class.
C28_EveryDefInClassIsMethod ==
  (pc = "done" /\ lang = "python") =>
    \A c \in 1..Len(stats.classes) :
      {stats.classes[c].methods[k].lineNumber : k \in 1..Len(stats.classes[c].methods)}
        = DefsInClassBody(LinesOf(code), stats.classes[c].lineNumber)

(***************************************************************************)
(* Specification of the inline script functions of the HTML extractor      *)
(***************************************************************************)
MaxScriptLines == 4
ScriptPool == {
  <<"<","s","c","r","i","p","t",">">>,
  <<"<","s","c","r","i","p","t"," ","s","r","c","=",DQ,"a",".","j","s",DQ,">">>,
  <<"<","/","s","c","r","i","p","t",">">>,
  <<"f","u","n","c","t","i","o","n"," ","f","(",")"," ","{","}">>,
  <<"c","o","n","s","t"," ","g"," ","="," ","(",")"," ","=",">"," ","1",";">>,
  <<"<","s","c","r","i","p","t",">","f","u","n","c","t","i","o","n"," ","h","(",")"," ","{","}","<","/","s","c","r","i","p","t",">">> }

InitInline ==
  /\ lang = "html"
  /\ code \in FilesOver(ScriptPool, MaxScriptLines)
  /\ pc = "ready"
  /\ stats = Idle
  /\ fsys = Idle /\ lastStats = Idle /\ heap = Idle /\ reqs = Idle
  /\ provider = Idle /\ delivered = Idle
\* parseHtmlCode: functions: parseInlineScriptFunctions(lines)
ParseInlineScripts ==
  /\ pc = "ready" /\ lang = "html"
  /\ stats' = [functions |-> parseInlineScriptFunctions(LinesOf(code)),
               totalLines |-> Len(LinesOf(code))]
  /\ pc' = "done"
  /\ UNCHANGED <<lang, code, fsys, lastStats, heap, reqs, provider, delivered>>
NextInline == ParseInlineScripts
SpecInline == InitInline /\ [][NextInline]_vars

InlineOpenLine(l) == Includes(l, KwScriptOpen) /\ ~Includes(l, KwSrcEq)
CloseLine(l) == Includes(l, KwScriptClose)
\* line i lies on or after an open tag without src and before the next close tag
InInlineRegion(lines, i) ==
  \E j \in 1..i : InlineOpenLine(lines[j]) /\ \A k \in j..i : ~CloseLine(lines[k])
FunctionLines == {stats.functions[k].lineNumber : k \in 1..Len(stats.functions)}

\* C29: the HTML extractor records a function only from a line on or after the line of a
\* <script> open tag without a src attribute and strictly before the line of the next
\* </script> close tag; no function is recorded from a line outside such a region or from
\* the content of an external script element.
C29_FunctionsOnlyInInlineScript ==
  (pc = "done" /\ lang = "html") =>
    \A n \in FunctionLines : InInlineRegion(LinesOf(code), n)
\* an external script whose content declares a function, followed by an inline script whose
\* function is the only one recorded
C29_Witness ==
  /\ pc = "done" /\ lang = "html"
  /\ Len(LinesOf(code)) = 4
  /\ Includes(LinesOf(code)[1], KwSrcEq)
  /\ InlineFunction(LinesOf(code)[2]).ok
  /\ InlineOpenLine(LinesOf(code)[3])
  /\ FunctionLines = {4}

==============================================================================
